---- MODULE Spec2Model ----
(***************************************************************************)
(* Resume-to-job scoring engine (components/ai_analyzer.py), the batch     *)
(* page (app.py) and their helpers, as state machines.                     *)
(*                                                                         *)
(* Texts are character strings; every scanner of the source (substring     *)
(* tests, word-boundary regexes, the year / degree / GPA patterns) is      *)
(* computed on the characters.  Real-valued scores are exact fixed-point   *)
(* integers: a score x is stored as x * U (U = 10000) while it is being    *)
(* combined, and as hundredths (x * 100) once round(x, 2) was applied.     *)
(* round(x, 2) is exact rounding, ties to even; the rounding error of the  *)
(* Python floats is not modelled, so that on a tie the program's value     *)
(* may differ from the model's by 0.01.                                    *)
(*                                                                         *)
(* Three specifications share the module:                                  *)
(*   Spec       calls of calculate_resume_score on a resume text and a job *)
(*              description, repeated in the same or a new interpreter;    *)
(*   SpecMatch  calculate_skills_match on growing resume skills;           *)
(*   SpecBatch  the batch page on a growing list of uploaded files.        *)
(* The other specifications call one function of the analyzer on its own,  *)
(* on arguments drawn from a set, and keep the arguments and the result:   *)
(*   SpecFit    calculate_job_fit_score on the four fits of a role;        *)
(*   SpecSkills extract_skills_with_context on a text;                     *)
(*   SpecImpact assess_impact_level on an achievement statement;           *)
(*   SpecRole   identify_job_role_with_confidence on a job description;    *)
(*   SpecBonus  calculate_contextual_role_match on a resume's analysis;    *)
(*   SpecExperienceFit  calculate_experience_fit on two numbers of years;  *)
(*   SpecRecommend      generate_enhanced_recommendations;                 *)
(*   SpecSkillsScore    calculate_skills_score on a resume and on the same *)
(*                      resume with more skills.                           *)
(* The last specifications are about the login (components/auth.py,        *)
(* components/login.py) and the session state (utils/helpers.py):          *)
(*   SpecHistory     the analysis history of the single-file page;         *)
(*   SpecSessions    the session store under calls that run one by one;    *)
(*   SpecApp         the runs of the script in one browser session;        *)
(*   SpecUsers       add_user next to a login of another browser session;  *)
(*   SpecConcurrent  the session store under calls that run at once.       *)
(***************************************************************************)
EXTENDS Integers, Sequences, FiniteSets, TLC

VARIABLES
    input_resume_text,      \* resume_text of the pending / last calculate_resume_score call
    input_job_description,  \* job_description of the pending / last call
    hash_seed,              \* string-hash randomisation of the running interpreter
    pc,                     \* "ready" | "done"
    calls,                  \* number of completed calls on these arguments
    report,                 \* outcome of the last call (NoReport before the first)
    first_report,           \* outcome of the first call on these arguments
    locals,                 \* local variables of the last call (history)
    match_resume_skills,    \* resume_analysis["skills"] handed to calculate_skills_match
    match_required_skills,  \* job_requirements["required_skills"] handed to it
    match_result,           \* its result for these, a fraction
    match_previous,         \* its result before the last skill was added (history)
    uploaded_files,         \* the files of the batch uploader
    batch_results,          \* results of handle_batch_processing
    comparison_data,        \* the rows of the comparison table of display_batch_results
    top_candidates,         \* the rows of its "Top Candidates" list
    batch_status,           \* what the last run of handle_batch_processing showed
    called_with,            \* the arguments of a function that is called on its own
    returned_value,         \* <<>> before the call, <<v>> once it has returned v
    analysis_history,       \* st.session_state.analysis_history of one browser session
    history_added,          \* every item add_analysis_to_history was given (history)
    users_file,             \* the content of data/users.json
    sessions_file,          \* the content of data/sessions.json
    now,                    \* the clock read by datetime.now()
    session_state,          \* st.session_state of one browser session (the login keys)
    page_shown,             \* the page the last script run of that browser showed
    last_run,               \* what check_authentication saw in that run (history)
    last_call,              \* the last completed AuthManager call and its result (history)
    requests,               \* the AuthManager calls in progress, one frame per request
    ended                   \* sessions logged out or found expired so far (history)

analysis_vars == <<input_resume_text, input_job_description, hash_seed, pc, calls, report,
                   first_report, locals>>

match_vars == <<match_resume_skills, match_required_skills, match_result, match_previous>>

batch_vars == <<uploaded_files, batch_results, comparison_data, top_candidates, batch_status>>

call_vars == <<called_with, returned_value>>

history_vars == <<analysis_history, history_added>>

auth_vars == <<users_file, sessions_file, now, session_state, page_shown, last_run, last_call,
               requests, ended>>

app_vars == <<history_vars, auth_vars>>

vars == <<analysis_vars, match_vars, batch_vars, call_vars, app_vars>>

-----------------------------------------------------------------------------
(* Characters and strings                                                  *)

Digits == {"0", "1", "2", "3", "4", "5", "6", "7", "8", "9"}

LowerLetters ==
    {"a", "b", "c", "d", "e", "f", "g", "h", "i", "j", "k", "l", "m",
     "n", "o", "p", "q", "r", "s", "t", "u", "v", "w", "x", "y", "z"}

UpperLetters ==
    {"A", "B", "C", "D", "E", "F", "G", "H", "I", "J", "K", "L", "M",
     "N", "O", "P", "Q", "R", "S", "T", "U", "V", "W", "X", "Y", "Z"}

\* \s of the re module (the ASCII part)
Whitespace == {" ", "\t", "\n", "\r", "\f"}

\* \w of the re module (the ASCII part)
WordChars == Digits \cup LowerLetters \cup UpperLetters \cup {"_"}

UpperAlphabet == "ABCDEFGHIJKLMNOPQRSTUVWXYZ"

LowerAlphabet == "abcdefghijklmnopqrstuvwxyz"

DigitAlphabet == "0123456789"

\* the character of t at position i, "" outside of t
Ch(t, i) == IF i >= 1 /\ i <= Len(t) THEN SubSeq(t, i, i) ELSE ""

Min(S) == CHOOSE x \in S : \A y \in S : x <= y

Max(S) == CHOOSE x \in S : \A y \in S : x >= y

LowerChar(c) ==
    IF c \in UpperLetters
    THEN Ch(LowerAlphabet, CHOOSE k \in 1..26 : Ch(UpperAlphabet, k) = c)
    ELSE c

RECURSIVE LowerRange(_, _, _)
LowerRange(t, a, b) ==
    IF a > b THEN ""
    ELSE IF a = b THEN LowerChar(Ch(t, a))
    ELSE LET m == (a + b) \div 2
         IN  LowerRange(t, a, m) \o LowerRange(t, m + 1, b)

\* str.lower()
lower(t) == LowerRange(t, 1, Len(t))

\* a strip that removes nothing
strip_nothing(t) == t

\* str.strip(): leading and trailing whitespace removed
strip(t) ==
    LET keep == {i \in 1..Len(t) : Ch(t, i) \notin Whitespace}
    IN  IF keep = {} THEN ""
        ELSE SubSeq(t, Min(keep),
                 CHOOSE i \in keep : \A j \in (i + 1)..Len(t) : Ch(t, j) \in Whitespace)

\* the literal lit stands in t at position p
LitAt(t, p, lit) ==
    /\ p >= 1
    /\ p + Len(lit) - 1 <= Len(t)
    /\ SubSeq(t, p, p + Len(lit) - 1) = lit

\* Python's `lit in t`
Contains(t, lit) == \E p \in 1..(Len(t) - Len(lit) + 1) : LitAt(t, p, lit)

\* the positions where lit starts in t
Occurrences(t, lit) == {p \in 1..(Len(t) - Len(lit) + 1) : LitAt(t, p, lit)}

IsWordAt(t, p) == p >= 1 /\ p <= Len(t) /\ Ch(t, p) \in WordChars

\* \b holds between the characters p-1 and p
WordBoundary(t, p) == IsWordAt(t, p - 1) # IsWordAt(t, p)

\* the positions reached from p after \s*
AfterWs(t, p) ==
    IF p > Len(t) + 1 THEN {}
    ELSE p..(CHOOSE q \in p..(Len(t) + 1) :
                /\ Ch(t, q) \notin Whitespace
                /\ \A k \in p..(q - 1) : Ch(t, k) \in Whitespace)

\* the positions reached from the positions P after \s*
AfterWsAll(t, P) == UNION {AfterWs(t, p) : p \in P}

\* the positions reached from the positions P after the literal lit
AfterLit(t, P, lit) == {p + Len(lit) : p \in {q \in P : LitAt(t, q, lit)}}

\* the positions reached from P after one of the literals of lits
AfterAny(t, P, lits) == UNION {AfterLit(t, P, l) : l \in lits}

\* the positions reached from P after (?:lit)?
AfterOpt(t, P, lit) == P \cup AfterLit(t, P, lit)

RECURSIVE SeqOfSet(_)
\* the elements of a set of integers in increasing order
SeqOfSet(S) == IF S = {} THEN <<>> ELSE <<Min(S)>> \o SeqOfSet(S \ {Min(S)})

RECURSIVE Concat(_)
\* the concatenation of a sequence of sequences
Concat(ss) == IF ss = <<>> THEN <<>> ELSE Head(ss) \o Concat(Tail(ss))

RECURSIVE Join(_, _)
\* sep.join(parts)
Join(parts, sep) ==
    IF parts = <<>> THEN ""
    ELSE IF Len(parts) = 1 THEN parts[1]
    ELSE parts[1] \o sep \o Join(Tail(parts), sep)

RECURSIVE SelectSeqOf(_, _)
\* the elements of s whose index is in keep, in order
SelectSeqOf(s, keep) ==
    IF s = <<>> THEN <<>>
    ELSE LET n == Len(s)
             front == SelectSeqOf(SubSeq(s, 1, n - 1), keep)
         IN  IF n \in keep THEN Append(front, s[n]) ELSE front

Range(s) == {s[i] : i \in DOMAIN s}

RECURSIVE Sum(_)
\* the sum of a sequence of numbers
Sum(s) == IF s = <<>> THEN 0 ELSE Head(s) + Sum(Tail(s))

-----------------------------------------------------------------------------
(* Static tables                                                           *)

\* The skills taxonomy, in the iteration order of the dict.  The model keeps
\* these entries of the embedded taxonomy (every category of the embedded
\* taxonomy is a dict of subcategories); data/skills_database.json may
\* replace the taxonomy by any other one, this one included.
skills_db ==
    <<
     [category |-> "programming_languages", subcategories |-> <<
        [subcategory |-> "backend", skills |-> <<"python", "go">>],
        [subcategory |-> "data_science", skills |-> <<"python", "r", "sql">>],
        [subcategory |-> "systems", skills |-> <<"c">>]>>],
     [category |-> "web_technologies", subcategories |-> <<
        [subcategory |-> "backend_frameworks", skills |-> <<"express.js">>]>>],
     [category |-> "culinary_skills", subcategories |-> <<
        [subcategory |-> "cooking_techniques", skills |-> <<"grilling">>],
        [subcategory |-> "kitchen_management", skills |-> <<"kitchen safety">>]>>],
     [category |-> "healthcare_skills", subcategories |-> <<
        [subcategory |-> "clinical", skills |-> <<"patient care">>]>>],
     [category |-> "business_finance", subcategories |-> <<
        [subcategory |-> "certifications", skills |-> <<"cpa", "ca">>]>>],
     [category |-> "data_science", subcategories |-> <<
        [subcategory |-> "visualization", skills |-> <<"tableau">>]>>],
     [category |-> "soft_skills", subcategories |-> <<
        [subcategory |-> "leadership", skills |-> <<"leadership">>]>>],
     [category |-> "certifications", subcategories |-> <<
        [subcategory |-> "finance", skills |-> <<"cpa", "ca">>]>>]
    >>

industry_role_weights ==
    <<
     [role |-> "chef", required_skills |-> <<"culinary_skills">>, preferred_skills |-> <<"soft_skills", "business_finance", "languages">>,
      weights |-> <<<<"skills", 60>>, <<"experience", 25>>, <<"education", 10>>, <<"passion", 5>>>>,
      contextual_bonus |-> 60, minimum_threshold |-> 40],
     [role |-> "cook", required_skills |-> <<"culinary_skills">>, preferred_skills |-> <<"soft_skills">>,
      weights |-> <<<<"skills", 55>>, <<"experience", 30>>, <<"education", 10>>, <<"reliability", 5>>>>,
      contextual_bonus |-> 60, minimum_threshold |-> 35],
     [role |-> "baker", required_skills |-> <<"culinary_skills">>, preferred_skills |-> <<"soft_skills", "business_finance">>,
      weights |-> <<<<"skills", 65>>, <<"experience", 25>>, <<"education", 10>>>>,
      contextual_bonus |-> 60, minimum_threshold |-> 40],
     [role |-> "barista", required_skills |-> <<"culinary_skills", "retail_customer_service">>, preferred_skills |-> <<"soft_skills">>,
      weights |-> <<<<"skills", 50>>, <<"experience", 30>>, <<"customer_service", 20>>>>,
      contextual_bonus |-> 50, minimum_threshold |-> 35],
     [role |-> "nurse", required_skills |-> <<"healthcare_skills">>, preferred_skills |-> <<"soft_skills", "certifications">>,
      weights |-> <<<<"skills", 50>>, <<"experience", 30>>, <<"education", 15>>, <<"certifications", 5>>>>,
      contextual_bonus |-> 60, minimum_threshold |-> 50],
     [role |-> "doctor", required_skills |-> <<"healthcare_skills">>, preferred_skills |-> <<"soft_skills", "certifications">>,
      weights |-> <<<<"skills", 45>>, <<"experience", 25>>, <<"education", 25>>, <<"certifications", 5>>>>,
      contextual_bonus |-> 70, minimum_threshold |-> 70],
     [role |-> "medical_assistant", required_skills |-> <<"healthcare_skills">>, preferred_skills |-> <<"soft_skills", "retail_customer_service">>,
      weights |-> <<<<"skills", 55>>, <<"experience", 25>>, <<"education", 15>>, <<"certification", 5>>>>,
      contextual_bonus |-> 55, minimum_threshold |-> 45],
     [role |-> "pharmacist", required_skills |-> <<"healthcare_skills">>, preferred_skills |-> <<"soft_skills", "retail_customer_service">>,
      weights |-> <<<<"skills", 50>>, <<"experience", 25>>, <<"education", 20>>, <<"certification", 5>>>>,
      contextual_bonus |-> 65, minimum_threshold |-> 60],
     [role |-> "software_engineer", required_skills |-> <<"programming_languages", "databases">>, preferred_skills |-> <<"cloud_platforms", "soft_skills">>,
      weights |-> <<<<"skills", 50>>, <<"experience", 25>>, <<"education", 15>>, <<"projects", 10>>>>,
      contextual_bonus |-> 60, minimum_threshold |-> 55],
     [role |-> "web_developer", required_skills |-> <<"programming_languages", "web_technologies">>, preferred_skills |-> <<"cloud_platforms", "soft_skills">>,
      weights |-> <<<<"skills", 50>>, <<"experience", 25>>, <<"education", 15>>, <<"projects", 10>>>>,
      contextual_bonus |-> 60, minimum_threshold |-> 55],
     [role |-> "data_scientist", required_skills |-> <<"data_science", "programming_languages">>, preferred_skills |-> <<"cloud_platforms", "databases">>,
      weights |-> <<<<"skills", 45>>, <<"experience", 25>>, <<"education", 20>>, <<"projects", 10>>>>,
      contextual_bonus |-> 60, minimum_threshold |-> 60],
     [role |-> "data_analyst", required_skills |-> <<"data_science", "programming_languages">>, preferred_skills |-> <<"databases", "soft_skills">>,
      weights |-> <<<<"skills", 45>>, <<"experience", 25>>, <<"education", 20>>, <<"projects", 10>>>>,
      contextual_bonus |-> 60, minimum_threshold |-> 55],
     [role |-> "cybersecurity_specialist", required_skills |-> <<"security_safety", "programming_languages">>, preferred_skills |-> <<"cloud_platforms", "certifications">>,
      weights |-> <<<<"skills", 50>>, <<"experience", 30>>, <<"education", 15>>, <<"certifications", 5>>>>,
      contextual_bonus |-> 65, minimum_threshold |-> 60],
     [role |-> "singer_performer", required_skills |-> <<"creative_arts">>, preferred_skills |-> <<"soft_skills">>,
      weights |-> <<<<"skills", 40>>, <<"experience", 35>>, <<"performance_quality", 15>>, <<"education", 10>>>>,
      contextual_bonus |-> 60, minimum_threshold |-> 40],
     [role |-> "graphic_designer", required_skills |-> <<"creative_arts">>, preferred_skills |-> <<"soft_skills", "web_technologies">>,
      weights |-> <<<<"skills", 50>>, <<"experience", 30>>, <<"portfolio", 15>>, <<"education", 5>>>>,
      contextual_bonus |-> 55, minimum_threshold |-> 45],
     [role |-> "photographer", required_skills |-> <<"creative_arts">>, preferred_skills |-> <<"soft_skills", "business_finance">>,
      weights |-> <<<<"skills", 45>>, <<"experience", 30>>, <<"portfolio", 20>>, <<"education", 5>>>>,
      contextual_bonus |-> 55, minimum_threshold |-> 40],
     [role |-> "video_editor", required_skills |-> <<"creative_arts">>, preferred_skills |-> <<"soft_skills", "programming_languages">>,
      weights |-> <<<<"skills", 55>>, <<"experience", 25>>, <<"portfolio", 15>>, <<"education", 5>>>>,
      contextual_bonus |-> 55, minimum_threshold |-> 45],
     [role |-> "accountant", required_skills |-> <<"business_finance">>, preferred_skills |-> <<"soft_skills", "programming_languages">>,
      weights |-> <<<<"skills", 50>>, <<"experience", 30>>, <<"education", 15>>, <<"certifications", 5>>>>,
      contextual_bonus |-> 60, minimum_threshold |-> 55],
     [role |-> "financial_analyst", required_skills |-> <<"business_finance", "data_science">>, preferred_skills |-> <<"programming_languages", "soft_skills">>,
      weights |-> <<<<"skills", 45>>, <<"experience", 30>>, <<"education", 15>>, <<"certifications", 10>>>>,
      contextual_bonus |-> 60, minimum_threshold |-> 55],
     [role |-> "investment_banker", required_skills |-> <<"business_finance">>, preferred_skills |-> <<"soft_skills", "data_science">>,
      weights |-> <<<<"skills", 40>>, <<"experience", 35>>, <<"education", 20>>, <<"network", 5>>>>,
      contextual_bonus |-> 65, minimum_threshold |-> 65],
     [role |-> "sales_representative", required_skills |-> <<"sales_marketing", "soft_skills">>, preferred_skills |-> <<"business_finance">>,
      weights |-> <<<<"skills", 40>>, <<"experience", 35>>, <<"education", 15>>, <<"results", 10>>>>,
      contextual_bonus |-> 60, minimum_threshold |-> 45],
     [role |-> "marketing_manager", required_skills |-> <<"sales_marketing", "soft_skills">>, preferred_skills |-> <<"data_science", "creative_arts">>,
      weights |-> <<<<"skills", 45>>, <<"experience", 30>>, <<"education", 15>>, <<"campaigns", 10>>>>,
      contextual_bonus |-> 60, minimum_threshold |-> 50],
     [role |-> "digital_marketer", required_skills |-> <<"sales_marketing", "web_technologies">>, preferred_skills |-> <<"data_science", "creative_arts">>,
      weights |-> <<<<"skills", 50>>, <<"experience", 25>>, <<"education", 15>>, <<"certifications", 10>>>>,
      contextual_bonus |-> 60, minimum_threshold |-> 50],
     [role |-> "teacher", required_skills |-> <<"education_skills", "soft_skills">>, preferred_skills |-> <<"languages">>,
      weights |-> <<<<"skills", 45>>, <<"experience", 30>>, <<"education", 20>>, <<"passion", 5>>>>,
      contextual_bonus |-> 60, minimum_threshold |-> 50],
     [role |-> "professor", required_skills |-> <<"education_skills", "soft_skills">>, preferred_skills |-> <<"research_tools">>,
      weights |-> <<<<"skills", 40>>, <<"experience", 25>>, <<"education", 25>>, <<"research", 10>>>>,
      contextual_bonus |-> 65, minimum_threshold |-> 60],
     [role |-> "tutor", required_skills |-> <<"education_skills", "soft_skills">>, preferred_skills |-> <<"languages">>,
      weights |-> <<<<"skills", 50>>, <<"experience", 25>>, <<"education", 20>>, <<"results", 5>>>>,
      contextual_bonus |-> 55, minimum_threshold |-> 40],
     [role |-> "mechanical_engineer", required_skills |-> <<"manufacturing_engineering">>, preferred_skills |-> <<"programming_languages", "soft_skills">>,
      weights |-> <<<<"skills", 50>>, <<"experience", 30>>, <<"education", 15>>, <<"projects", 5>>>>,
      contextual_bonus |-> 60, minimum_threshold |-> 55],
     [role |-> "electrical_engineer", required_skills |-> <<"manufacturing_engineering">>, preferred_skills |-> <<"programming_languages", "soft_skills">>,
      weights |-> <<<<"skills", 50>>, <<"experience", 30>>, <<"education", 15>>, <<"projects", 5>>>>,
      contextual_bonus |-> 60, minimum_threshold |-> 55],
     [role |-> "civil_engineer", required_skills |-> <<"manufacturing_engineering", "real_estate_construction">>, preferred_skills |-> <<"soft_skills">>,
      weights |-> <<<<"skills", 50>>, <<"experience", 30>>, <<"education", 15>>, <<"projects", 5>>>>,
      contextual_bonus |-> 60, minimum_threshold |-> 55],
     [role |-> "lawyer", required_skills |-> <<"legal_skills">>, preferred_skills |-> <<"soft_skills", "languages">>,
      weights |-> <<<<"skills", 45>>, <<"experience", 30>>, <<"education", 20>>, <<"bar_exam", 5>>>>,
      contextual_bonus |-> 65, minimum_threshold |-> 60],
     [role |-> "paralegal", required_skills |-> <<"legal_skills">>, preferred_skills |-> <<"soft_skills">>,
      weights |-> <<<<"skills", 50>>, <<"experience", 30>>, <<"education", 15>>, <<"certification", 5>>>>,
      contextual_bonus |-> 55, minimum_threshold |-> 45],
     [role |-> "truck_driver", required_skills |-> <<"transportation_logistics">>, preferred_skills |-> <<"soft_skills">>,
      weights |-> <<<<"skills", 60>>, <<"experience", 25>>, <<"safety_record", 10>>, <<"reliability", 5>>>>,
      contextual_bonus |-> 60, minimum_threshold |-> 40],
     [role |-> "pilot", required_skills |-> <<"transportation_logistics">>, preferred_skills |-> <<"soft_skills">>,
      weights |-> <<<<"skills", 50>>, <<"experience", 30>>, <<"education", 15>>, <<"certifications", 5>>>>,
      contextual_bonus |-> 70, minimum_threshold |-> 65],
     [role |-> "farmer", required_skills |-> <<"agriculture_environment">>, preferred_skills |-> <<"soft_skills", "business_finance">>,
      weights |-> <<<<"skills", 55>>, <<"experience", 30>>, <<"education", 10>>, <<"sustainability", 5>>>>,
      contextual_bonus |-> 60, minimum_threshold |-> 40],
     [role |-> "veterinarian", required_skills |-> <<"agriculture_environment", "healthcare_skills">>, preferred_skills |-> <<"soft_skills">>,
      weights |-> <<<<"skills", 50>>, <<"experience", 25>>, <<"education", 20>>, <<"certification", 5>>>>,
      contextual_bonus |-> 65, minimum_threshold |-> 60],
     [role |-> "security_guard", required_skills |-> <<"security_safety">>, preferred_skills |-> <<"soft_skills">>,
      weights |-> <<<<"skills", 50>>, <<"experience", 30>>, <<"education", 10>>, <<"reliability", 10>>>>,
      contextual_bonus |-> 55, minimum_threshold |-> 40],
     [role |-> "police_officer", required_skills |-> <<"security_safety">>, preferred_skills |-> <<"soft_skills">>,
      weights |-> <<<<"skills", 45>>, <<"experience", 30>>, <<"education", 15>>, <<"fitness", 10>>>>,
      contextual_bonus |-> 65, minimum_threshold |-> 55],
     [role |-> "real_estate_agent", required_skills |-> <<"real_estate_construction", "sales_marketing">>, preferred_skills |-> <<"soft_skills">>,
      weights |-> <<<<"skills", 45>>, <<"experience", 30>>, <<"education", 15>>, <<"network", 10>>>>,
      contextual_bonus |-> 60, minimum_threshold |-> 45],
     [role |-> "construction_worker", required_skills |-> <<"real_estate_construction">>, preferred_skills |-> <<"soft_skills">>,
      weights |-> <<<<"skills", 60>>, <<"experience", 25>>, <<"safety", 10>>, <<"reliability", 5>>>>,
      contextual_bonus |-> 60, minimum_threshold |-> 35],
     [role |-> "hotel_manager", required_skills |-> <<"hospitality_tourism", "business_finance">>, preferred_skills |-> <<"soft_skills", "languages">>,
      weights |-> <<<<"skills", 45>>, <<"experience", 30>>, <<"education", 15>>, <<"guest_satisfaction", 10>>>>,
      contextual_bonus |-> 60, minimum_threshold |-> 50],
     [role |-> "tour_guide", required_skills |-> <<"hospitality_tourism", "languages">>, preferred_skills |-> <<"soft_skills">>,
      weights |-> <<<<"skills", 50>>, <<"experience", 25>>, <<"knowledge", 15>>, <<"personality", 10>>>>,
      contextual_bonus |-> 55, minimum_threshold |-> 40],
     [role |-> "personal_trainer", required_skills |-> <<"sports_recreation">>, preferred_skills |-> <<"soft_skills", "healthcare_skills">>,
      weights |-> <<<<"skills", 50>>, <<"experience", 25>>, <<"certification", 15>>, <<"results", 10>>>>,
      contextual_bonus |-> 55, minimum_threshold |-> 45],
     [role |-> "sports_coach", required_skills |-> <<"sports_recreation">>, preferred_skills |-> <<"soft_skills", "education_skills">>,
      weights |-> <<<<"skills", 45>>, <<"experience", 35>>, <<"education", 10>>, <<"team_results", 10>>>>,
      contextual_bonus |-> 60, minimum_threshold |-> 45],
     [role |-> "retail_manager", required_skills |-> <<"retail_customer_service", "business_finance">>, preferred_skills |-> <<"soft_skills">>,
      weights |-> <<<<"skills", 45>>, <<"experience", 30>>, <<"education", 15>>, <<"sales_results", 10>>>>,
      contextual_bonus |-> 55, minimum_threshold |-> 45],
     [role |-> "cashier", required_skills |-> <<"retail_customer_service">>, preferred_skills |-> <<"soft_skills">>,
      weights |-> <<<<"skills", 50>>, <<"experience", 25>>, <<"reliability", 15>>, <<"accuracy", 10>>>>,
      contextual_bonus |-> 50, minimum_threshold |-> 35],
     [role |-> "customer_service_representative", required_skills |-> <<"retail_customer_service">>, preferred_skills |-> <<"soft_skills", "languages">>,
      weights |-> <<<<"skills", 45>>, <<"experience", 30>>, <<"communication", 20>>, <<"problem_solving", 5>>>>,
      contextual_bonus |-> 55, minimum_threshold |-> 40],
     [role |-> "hr_manager", required_skills |-> <<"human_resources", "soft_skills">>, preferred_skills |-> <<"business_finance", "legal_skills">>,
      weights |-> <<<<"skills", 45>>, <<"experience", 30>>, <<"education", 15>>, <<"certifications", 10>>>>,
      contextual_bonus |-> 60, minimum_threshold |-> 50],
     [role |-> "recruiter", required_skills |-> <<"human_resources", "soft_skills">>, preferred_skills |-> <<"sales_marketing">>,
      weights |-> <<<<"skills", 40>>, <<"experience", 35>>, <<"network", 15>>, <<"results", 10>>>>,
      contextual_bonus |-> 55, minimum_threshold |-> 45],
     [role |-> "market_research_analyst", required_skills |-> <<"market_research", "data_science">>, preferred_skills |-> <<"business_consulting", "soft_skills">>,
      weights |-> <<<<"skills", 40>>, <<"experience", 30>>, <<"education", 20>>, <<"domain_knowledge", 10>>>>,
      contextual_bonus |-> 60, minimum_threshold |-> 50],
     [role |-> "business_consultant", required_skills |-> <<"business_consulting", "soft_skills">>, preferred_skills |-> <<"market_research", "business_finance">>,
      weights |-> <<<<"skills", 35>>, <<"experience", 35>>, <<"education", 15>>, <<"client_impact", 15>>>>,
      contextual_bonus |-> 60, minimum_threshold |-> 55],
     [role |-> "management_consultant", required_skills |-> <<"business_consulting", "soft_skills">>, preferred_skills |-> <<"data_science", "business_finance">>,
      weights |-> <<<<"skills", 40>>, <<"experience", 30>>, <<"education", 20>>, <<"problem_solving", 10>>>>,
      contextual_bonus |-> 65, minimum_threshold |-> 60],
     [role |-> "general", required_skills |-> <<"soft_skills">>, preferred_skills |-> <<>>,
      weights |-> <<<<"skills", 30>>, <<"experience", 30>>, <<"education", 25>>, <<"potential", 15>>>>,
      contextual_bonus |-> 40, minimum_threshold |-> 30],
     [role |-> "intern", required_skills |-> <<"soft_skills">>, preferred_skills |-> <<>>,
      weights |-> <<<<"skills", 25>>, <<"experience", 20>>, <<"education", 35>>, <<"enthusiasm", 20>>>>,
      contextual_bonus |-> 35, minimum_threshold |-> 25],
     [role |-> "entry_level", required_skills |-> <<"soft_skills">>, preferred_skills |-> <<>>,
      weights |-> <<<<"skills", 35>>, <<"experience", 25>>, <<"education", 25>>, <<"trainability", 15>>>>,
      contextual_bonus |-> 40, minimum_threshold |-> 30]
    >>

job_role_keywords ==
    <<
     [role |-> "chef", keywords |-> <<"chef", "head chef", "executive chef", "sous chef", "culinary", "cooking", "kitchen", "restaurant">>],
     [role |-> "cook", keywords |-> <<"cook", "line cook", "prep cook", "kitchen staff", "food preparation", "culinary assistant">>],
     [role |-> "nurse", keywords |-> <<"nurse", "nursing", "rn", "lpn", "cna", "healthcare", "patient care", "medical">>],
     [role |-> "singer_performer", keywords |-> <<"singer", "vocalist", "performer", "musician", "artist", "entertainer", "music">>],
     [role |-> "software_engineer", keywords |-> <<"software engineer", "developer", "programmer", "coding", "programming">>],
     [role |-> "web_developer", keywords |-> <<"web developer", "frontend", "backend", "full stack", "web development">>],
     [role |-> "data_scientist", keywords |-> <<"data scientist", "machine learning", "ai", "analytics", "data analysis">>],
     [role |-> "data_analyst", keywords |-> <<"data analyst", "business analyst", "analytics", "reporting">>],
     [role |-> "sales_representative", keywords |-> <<"sales", "sales rep", "account manager", "business development">>],
     [role |-> "teacher", keywords |-> <<"teacher", "educator", "instructor", "professor", "teaching">>],
     [role |-> "accountant", keywords |-> <<"accountant", "accounting", "bookkeeper", "financial analyst">>]
    >>

passion_indicators ==
    <<
     [category |-> "culinary", indicators |-> <<"passion for cooking", "love of food", "culinary arts", "food enthusiast", "cooking hobby", "chef dream", "culinary passion">>],
     [category |-> "music", indicators |-> <<"music passion", "performance passion", "love of music", "musical background", "singing passion", "stage passion">>],
     [category |-> "healthcare", indicators |-> <<"patient care", "helping others", "medical interest", "healthcare passion", "caring for people", "health advocacy">>],
     [category |-> "technology", indicators |-> <<"tech enthusiast", "coding passion", "technology lover", "programming hobby", "innovation passion", "tech geek">>],
     [category |-> "education", indicators |-> <<"teaching passion", "love of learning", "educational enthusiasm", "mentoring passion", "knowledge sharing">>],
     [category |-> "finance", indicators |-> <<"financial markets", "investment passion", "numbers enthusiast", "economic interest", "financial planning">>],
     [category |-> "sales", indicators |-> <<"people person", "relationship building", "persuasion skills", "networking passion", "communication love">>],
     [category |-> "creative", indicators |-> <<"artistic vision", "creative expression", "design passion", "visual storytelling", "artistic soul">>],
     [category |-> "sports", indicators |-> <<"athletic passion", "fitness enthusiasm", "competitive spirit", "sports lover", "physical wellness">>],
     [category |-> "legal", indicators |-> <<"justice passion", "legal interest", "advocacy spirit", "law enthusiasm", "rights defender">>],
     [category |-> "engineering", indicators |-> <<"problem solving", "innovation drive", "technical curiosity", "building passion", "design thinking">>],
     [category |-> "business", indicators |-> <<"entrepreneurial spirit", "business acumen", "leadership drive", "growth mindset", "strategic thinking">>]
    >>

high_demand_roles ==
    <<"chef", "cook", "nurse", "teacher", "truck_driver", "construction_worker", "security_guard", "cashier", "customer_service_representative", "baker", "barista", "personal_trainer", "tutor">>

\* role_match_bonus of contextual_factors
role_match_bonus ==
    [perfect_match |-> 80, good_match |-> 60, partial_match |-> 40, no_match |-> 0]

\* desperation_bonus.bonus_points of contextual_factors
demand_bonus_points == 20

\* passion_mapping of calculate_passion_bonus
passion_mapping ==
    <<
     <<"chef", "culinary">>,
     <<"cook", "culinary">>,
     <<"singer_performer", "music">>,
     <<"nurse", "healthcare">>,
     <<"software_engineer", "technology">>,
     <<"web_developer", "technology">>,
     <<"teacher", "education">>
    >>

\* experience_quality_indicators: the substring lists
high_impact == <<"led", "managed", "increased", "improved", "achieved", "delivered", "transformed">>

team_leadership == <<"team of", "managed", "supervised", "led", "directed">>

\* the value Python's None
None == <<>>

\* industry_role_weights.get(job_role, {})
role_config_at(idx, job_role) ==
    IF idx = {}
    THEN [role |-> job_role, required_skills |-> <<>>, preferred_skills |-> <<>>,
          weights |-> <<>>, contextual_bonus |-> 0, minimum_threshold |-> 0]
    ELSE industry_role_weights[Min(idx)]

\* self.industry_role_weights.get(job_role, {}) with the defaults of the readers
role_config(job_role) ==
    role_config_at({i \in 1..Len(industry_role_weights) :
                       industry_role_weights[i].role = job_role}, job_role)

\* role_weights.get(key, default), in hundredths
weight_get(weights, key, default) ==
    LET idx == {i \in DOMAIN weights : weights[i][1] = key}
    IN  IF idx = {} THEN default ELSE weights[Min(idx)][2]

-----------------------------------------------------------------------------
(* Skill Matcher                                                           *)

\* problematic_skills of is_exact_skill_match.  The pattern of an entry is
\*   \b(?:<skill>\b|<alts>...)(?!<lookahead>...)
\* and lookahead_ws tells whether each lookahead literal follows \s*.
problematic_skills ==
    <<
     [skill |-> "ca", alts |-> <<"chartered accountant", "chartered acc.">>,
      lookahead_ws |-> FALSE, lookahead |-> <<>>],
     [skill |-> "ai", alts |-> <<"artificial intelligence">>,
      lookahead_ws |-> FALSE, lookahead |-> <<>>],
     [skill |-> "ml", alts |-> <<"machine learning">>,
      lookahead_ws |-> FALSE, lookahead |-> <<>>],
     [skill |-> "ui", alts |-> <<"user interface">>,
      lookahead_ws |-> FALSE, lookahead |-> <<>>],
     [skill |-> "ux", alts |-> <<"user experience">>,
      lookahead_ws |-> FALSE, lookahead |-> <<>>],
     [skill |-> "r", alts |-> <<"r programming", "r language", "r statistical">>,
      lookahead_ws |-> FALSE, lookahead |-> <<>>],
     [skill |-> "c", alts |-> <<"c programming", "c language">>,
      lookahead_ws |-> FALSE, lookahead |-> <<"+", "#", "s">>],
     [skill |-> "go", alts |-> <<"golang", "go programming">>,
      lookahead_ws |-> TRUE, lookahead |-> <<"to", "for", "with">>],
     [skill |-> "it", alts |-> <<"information technology">>,
      lookahead_ws |-> TRUE, lookahead |-> <<"is", "was", "will">>],
     [skill |-> "hr", alts |-> <<"human resources">>,
      lookahead_ws |-> TRUE, lookahead |-> <<"department", "team">>]
    >>

\* context_rules of validate_skills_in_context
context_rules ==
    <<
     [skill |-> "ca",
      positive_context |-> <<"chartered accountant", "ca final", "ca inter", "icai",
                             "institute of chartered accountants", "accounting", "finance">>,
      negative_context |-> <<"education", "application", "statistical", "medical",
                             "chemical", "practical", "theoretical", "mathematics">>],
     [skill |-> "ai",
      positive_context |-> <<"artificial intelligence", "machine learning", "deep learning",
                             "neural networks", "ai/ml">>,
      negative_context |-> <<"available", "again", "said", "wait", "main", "certain">>],
     [skill |-> "go",
      positive_context |-> <<"golang", "go programming", "go language", "google go",
                             "programming">>,
      negative_context |-> <<"go to", "go for", "go with", "let go", "going", "go back",
                             "go through">>],
     [skill |-> "r",
      positive_context |-> <<"r programming", "r language", "r statistical", "rstudio",
                             "cran", "programming">>,
      negative_context |-> <<"for", "or", "are", "our", "more", "other", "their", "your",
                             "over">>],
     [skill |-> "it",
      positive_context |-> <<"information technology", "it support", "it department",
                             "it services">>,
      negative_context |-> <<"it is", "it was", "it will", "it can", "it has", "it would">>]
    >>

\* skill_indicators of is_in_skill_context
skill_indicators ==
    <<"programming", "language", "skill", "experience", "proficient",
      "knowledge", "familiar", "expert", "certification", "course",
      "training", "project", "development", "technology", "software",
      "tools", "frameworks", "languages", "technical", "professional">>

\* str.isalpha() (ASCII letters)
isalpha(s) ==
    /\ Len(s) > 0
    /\ \A i \in 1..Len(s) : Ch(s, i) \in (LowerLetters \cup UpperLetters)

RECURSIVE remove_spaces(_)
\* skill.replace(' ', '')
remove_spaces(s) ==
    IF s = "" THEN ""
    ELSE (IF Ch(s, 1) = " " THEN "" ELSE Ch(s, 1)) \o remove_spaces(SubSeq(s, 2, Len(s)))

\* the start positions of the matches of \b<word>\b in text
word_matches(text, word) ==
    {p \in Occurrences(text, word) :
        WordBoundary(text, p) /\ WordBoundary(text, p + Len(word))}

\* re.search of a problematic_skills pattern
special_skill_search(entry, text) ==
    LET ends(p) ==
            (IF LitAt(text, p, entry.skill) /\ WordBoundary(text, p + Len(entry.skill))
             THEN {p + Len(entry.skill)} ELSE {})
            \cup {p + Len(entry.alts[k]) :
                    k \in {j \in DOMAIN entry.alts : LitAt(text, p, entry.alts[j])}}
        lookahead_hit(e) ==
            \E k \in DOMAIN entry.lookahead :
                IF entry.lookahead_ws
                THEN AfterLit(text, AfterWs(text, e), entry.lookahead[k]) # {}
                ELSE LitAt(text, e, entry.lookahead[k])
    IN  \E p \in 1..Len(text) :
            /\ WordBoundary(text, p)
            /\ \E e \in ends(p) : ~lookahead_hit(e)

is_exact_skill_match(skill, text) ==
    LET pidx == {i \in DOMAIN problematic_skills : problematic_skills[i].skill = skill}
    IN  IF pidx # {}
        THEN special_skill_search(problematic_skills[Min(pidx)], text)
        ELSE IF \/ Contains(skill, "/")
                \/ Contains(skill, "+")
                \/ Contains(skill, ".")
                \/ (Len(skill) <= 3 /\ isalpha(skill))
        THEN word_matches(text, skill) # {}
        ELSE \/ word_matches(text, skill) # {}
             \/ (Contains(skill, " ") /\ word_matches(text, remove_spaces(skill)) # {})

\* The list-format test of is_in_skill_context on one context window:
\* [,\-\*]\s*<skill>\s*[,\-\*\n]   (the bullet character of the source's class
\* is left out: the texts of the model are ASCII)
list_format_search(context, skill) ==
    \E q \in 1..Len(context) :
        /\ Ch(context, q) \in {",", "-", "*"}
        /\ \E a \in AfterLit(context, AfterWs(context, q + 1), skill) :
              \E b \in AfterWs(context, a) :
                  b <= Len(context) /\ Ch(context, b) \in {",", "-", "*", "\n"}

is_in_skill_context(skill, text) ==
    \E p \in word_matches(text, skill) :
        LET first == IF p - 30 > 1 THEN p - 30 ELSE 1
            last == IF p + Len(skill) + 29 < Len(text) THEN p + Len(skill) + 29 ELSE Len(text)
            context == SubSeq(text, first, last)
        IN  \/ \E k \in DOMAIN skill_indicators : Contains(context, skill_indicators[k])
            \/ list_format_search(context, skill)

validate_individual_skill(skill, text, rules) ==
    LET ridx == {i \in DOMAIN rules : rules[i].skill = skill}
    IN  IF ridx = {} THEN TRUE
        ELSE LET rule == rules[Min(ridx)]
                 has_positive_context ==
                     \E k \in DOMAIN rule.positive_context :
                         Contains(text, rule.positive_context[k])
                 has_negative_context ==
                     \E k \in DOMAIN rule.negative_context :
                         Contains(text, rule.negative_context[k])
             IN  IF has_positive_context THEN TRUE
                 ELSE IF has_negative_context THEN FALSE
                 ELSE is_in_skill_context(skill, text)

\* Extracted skills have the shape of the taxonomy: a sequence (the dict's
\* insertion order) of [category, subcategories], each subcategory a
\* [subcategory, skills].
validate_skills_in_context(found_skills, text) ==
    LET valid(skill) == validate_individual_skill(lower(skill), text, context_rules)
        validate_sub(sub) ==
            [subcategory |-> sub.subcategory, skills |-> SelectSeq(sub.skills, valid)]
        nonempty_sub(sub) == sub.skills # <<>>
        validate_cat(cat) ==
            [category |-> cat.category,
             subcategories |->
                 SelectSeq([j \in DOMAIN cat.subcategories |->
                               validate_sub(cat.subcategories[j])], nonempty_sub)]
        nonempty_cat(cat) == cat.subcategories # <<>>
    IN  SelectSeq([i \in DOMAIN found_skills |-> validate_cat(found_skills[i])], nonempty_cat)

\* The loops of extract_skills_with_context keep the lower-cased skills found
\* so far in found_skill_texts and skip a skill that is in it.  A match depends
\* on the lower-cased skill only, so the entry (i, j, k) of the taxonomy is
\* skipped exactly when it matches and an entry of the same lower-cased text
\* comes before it in the iteration order.
skill_entry_found(db, text_lower, i, j, k) ==
    LET skill_lower == lower(db[i].subcategories[j].skills[k])
        same(a, b, c) == lower(db[a].subcategories[b].skills[c]) = skill_lower
    IN  /\ is_exact_skill_match(skill_lower, text_lower)
        /\ ~\E c \in 1..(k - 1) : same(i, j, c)
        /\ ~\E b \in 1..(j - 1) : \E c \in DOMAIN db[i].subcategories[b].skills : same(i, b, c)
        /\ ~\E a \in 1..(i - 1) :
               \E b \in DOMAIN db[a].subcategories :
                   \E c \in DOMAIN db[a].subcategories[b].skills : same(a, b, c)

\* extracted_skills of extract_skills_with_context before the validation
scan_skills_db(db, text_lower) ==
    LET found_skills(i, j) ==
            SelectSeqOf(db[i].subcategories[j].skills,
                {k \in DOMAIN db[i].subcategories[j].skills :
                    skill_entry_found(db, text_lower, i, j, k)})
        category_skills(i) ==
            LET subs == [j \in DOMAIN db[i].subcategories |->
                            [subcategory |-> db[i].subcategories[j].subcategory,
                             skills |-> found_skills(i, j)]]
            IN  SelectSeqOf(subs, {j \in DOMAIN subs : subs[j].skills # <<>>})
        cats == [i \in DOMAIN db |->
                    [category |-> db[i].category, subcategories |-> category_skills(i)]]
    IN  SelectSeqOf(cats, {i \in DOMAIN cats : cats[i].subcategories # <<>>})

extract_skills_with_context(text) ==
    LET text_lower == lower(text)
    IN  validate_skills_in_context(scan_skills_db(skills_db, text_lower), text_lower)

\* the skills of one category, subcategory by subcategory
category_skill_list(cat) == Concat([j \in DOMAIN cat.subcategories |-> cat.subcategories[j].skills])

\* every skill of an extracted-skills value, in iteration order
all_skill_list(skills) == Concat([i \in DOMAIN skills |-> category_skill_list(skills[i])])

count_total_skills(skills) == Len(all_skill_list(skills))

\* `category in skills`
has_category(skills, category) == \E i \in DOMAIN skills : skills[i].category = category

format_skills_for_display(skills) ==
    [i \in DOMAIN skills |->
        [category |-> skills[i].category, skills |-> category_skill_list(skills[i])]]

-----------------------------------------------------------------------------
(* Numbers in text                                                         *)

\* sys.get_int_max_str_digits() of the interpreter: int(s) raises ValueError
\* for a decimal string of more digits
int_max_str_digits == 4300

\* the result of a stage that completed, and of a stage that raised
Ok(v) == [raised |-> FALSE, value |-> v]

Raise(e) == [raised |-> TRUE, value |-> e]

IsDigitAt(t, i) == i >= 1 /\ i <= Len(t) /\ Ch(t, i) \in Digits

\* the first position at or after s that holds no digit (greedy \d*)
DigitRunEnd(t, s) ==
    CHOOSE j \in s..(Len(t) + 1) : ~IsDigitAt(t, j) /\ \A k \in s..(j - 1) : IsDigitAt(t, k)

\* the positions where a maximal run of digits starts
DigitRunStarts(t) == {i \in 1..Len(t) : IsDigitAt(t, i) /\ ~IsDigitAt(t, i - 1)}

DigitValue(c) == (CHOOSE k \in 1..10 : Ch(DigitAlphabet, k) = c) - 1

RECURSIVE digits_value(_)
\* the number a string of digits denotes
digits_value(s) ==
    IF s = "" THEN 0
    ELSE 10 * digits_value(SubSeq(s, 1, Len(s) - 1)) + DigitValue(Ch(s, Len(s)))

\* int(s) raises for s
int_raises(s) == Len(s) > int_max_str_digits

\* some int(s) of the conversions of a list comprehension raises
any_int_raises(strings) == \E i \in DOMAIN strings : int_raises(strings[i])

\* [int(s) for s in strings]
ints(strings) == [i \in DOMAIN strings |-> digits_value(strings[i])]

\* float(s) for a match of \d+\.?\d*, in thousandths
float_thousandths(s) ==
    LET d == DigitRunEnd(s, 1)
        whole == digits_value(SubSeq(s, 1, d - 1))
        frac == SubSeq(SubSeq(s, d + 1, Len(s)) \o "000", 1, 3)
    IN  whole * 1000 + digits_value(frac)

\* round(n / d) to the nearest integer, ties to the even one (n >= 0, d > 0)
round_half_even(n, d) ==
    LET q == n \div d
        r == n % d
    IN  IF 2 * r < d THEN q
        ELSE IF 2 * r > d THEN q + 1
        ELSE IF q % 2 = 0 THEN q ELSE q + 1

-----------------------------------------------------------------------------
(* Experience Parser                                                       *)

\* the positions after \s*(?:years?|yrs?) from the positions P
after_years(t, P) == AfterAny(t, AfterWsAll(t, P), {"years", "year", "yrs", "yr"})

\* the positions after \s*(?:of\s*)? from the positions P
after_of(t, P) ==
    LET Q == AfterWsAll(t, P)
    IN  Q \cup AfterWsAll(t, AfterLit(t, Q, "of"))

\* (\d+)\+?\s*(?:years?|yrs?)\s*(?:of\s*)?(?:experience|exp): the digit run
\* that ends before d is followed by the rest of the pattern
years_of_experience_at(t, d) ==
    AfterAny(t, after_of(t, after_years(t, AfterOpt(t, {d}, "+"))),
             {"experience", "exp"}) # {}

\* (\d+)\s*(?:years?|yrs?)\s*(?:of\s*)?(?:professional\s*)?(?:experience|exp)
years_of_professional_at(t, d) ==
    LET Q == after_of(t, after_years(t, {d}))
    IN  AfterAny(t, Q \cup AfterWsAll(t, AfterLit(t, Q, "professional")),
                 {"experience", "exp"}) # {}

\* the digit strings of the runs that start at the positions of S, by position
run_strings(t, S) ==
    LET starts == SeqOfSet(S)
    IN  [i \in DOMAIN starts |-> SubSeq(t, starts[i], DigitRunEnd(t, starts[i]) - 1)]

\* re.findall of the years-of-experience pattern
findall_years_of_experience(t) ==
    run_strings(t, {s \in DigitRunStarts(t) : years_of_experience_at(t, DigitRunEnd(t, s))})

\* re.findall of (\d+)-(\d+)\s*(?:years?|yrs?), the two groups of a match in turn
findall_year_range(t) ==
    LET starts == SeqOfSet({s \in DigitRunStarts(t) :
                    LET d == DigitRunEnd(t, s)
                    IN  /\ Ch(t, d) = "-"
                        /\ IsDigitAt(t, d + 1)
                        /\ after_years(t, {DigitRunEnd(t, d + 1)}) # {}})
    IN  Concat([i \in DOMAIN starts |->
            LET d == DigitRunEnd(t, starts[i])
            IN  <<SubSeq(t, starts[i], d - 1), SubSeq(t, d + 1, DigitRunEnd(t, d + 1) - 1)>>])

\* re.findall of <prefix>\s*(\d+)\s*(?:years?|yrs?), prefix_ends being the
\* positions after the matches of the prefix
findall_prefixed_years(t, prefix_ends) ==
    run_strings(t, {q \in AfterWsAll(t, prefix_ends) :
                      IsDigitAt(t, q) /\ after_years(t, {DigitRunEnd(t, q)}) # {}})

\* the positions after the occurrences of lit
ends_of(t, lit) == {p + Len(lit) : p \in Occurrences(t, lit)}

\* the characters of [a-zA-Z\s&.,]
CompanyChars == LowerLetters \cup UpperLetters \cup Whitespace \cup {"&", ".", ","}

\* the end of the group ([A-Z][a-zA-Z\s&.,]+?) that starts at s, the shortest
\* one whose end is among the positions that what follows in the pattern
\* accepts; 0 if there is none
lazy_name_end(t, s, follows) ==
    LET cand == {e \in (s + 2)..(Len(t) + 1) :
                    /\ \A k \in (s + 1)..(e - 1) : Ch(t, k) \in CompanyChars
                    /\ e \in follows}
    IN  IF cand = {} THEN 0 ELSE Min(cand)

RECURSIVE scan_matches(_, _)
\* re.findall takes the matches from left to right, each search starting where
\* the previous match ended: M is the set of <<start, end, group>> of the
\* matches the pattern has at each start
scan_matches(M, from) ==
    LET rest == {m \in M : m[1] >= from}
    IN  IF rest = {} THEN <<>>
        ELSE LET m == CHOOSE x \in rest : \A y \in rest : x[1] <= y[1]
             IN  <<m[3]>> \o scan_matches(M, m[2])

\* (?:at|@)\s+([A-Z][a-zA-Z\s&.,]+?)(?:\s|,|\.|\n)
company_after_at(t) ==
    LET name_start(p) ==
            LET a == IF LitAt(t, p, "at") THEN p + 2 ELSE p + 1
                q == Max(AfterWs(t, a))
            IN  IF q > a /\ Ch(t, q) \in UpperLetters THEN q ELSE 0
        terminated == {e \in 1..(Len(t) + 1) : Ch(t, e) \in (Whitespace \cup {",", "."})}
        starts == {p \in 1..Len(t) :
                     /\ LitAt(t, p, "at") \/ LitAt(t, p, "@")
                     /\ name_start(p) # 0
                     /\ lazy_name_end(t, name_start(p), terminated) # 0}
        M == {LET q == name_start(p)
                  e == lazy_name_end(t, q, terminated)
              IN  <<p, e + 1, SubSeq(t, q, e - 1)>> : p \in starts}
    IN  scan_matches(M, 1)

\* company|corp|corporation|inc|ltd|llc, in the order of the alternation
company_suffixes == <<"company", "corp", "corporation", "inc", "ltd", "llc">>

\* ([A-Z][a-zA-Z\s&.,]+?)\s+(?:company|corp|corporation|inc|ltd|llc)
company_before_suffix(t) ==
    LET suffix_at(q) == {k \in DOMAIN company_suffixes : LitAt(t, q, company_suffixes[k])}
        followed == {e \in 1..(Len(t) + 1) : \E q \in AfterWs(t, e) \ {e} : suffix_at(q) # {}}
        starts == {s \in 1..Len(t) :
                     Ch(t, s) \in UpperLetters /\ lazy_name_end(t, s, followed) # 0}
        M == {LET e == lazy_name_end(t, s, followed)
                  q == CHOOSE x \in AfterWs(t, e) \ {e} : suffix_at(x) # {}
              IN  <<s, q + Len(company_suffixes[Min(suffix_at(q))]), SubSeq(t, s, e - 1)>> :
              s \in starts}
    IN  scan_matches(M, 1)

RECURSIVE unique(_)
\* the distinct elements of a list, each at its first occurrence
unique(xs) ==
    IF xs = <<>> THEN <<>>
    ELSE LET front == unique(SubSeq(xs, 1, Len(xs) - 1))
             x == xs[Len(xs)]
         IN  IF x \in Range(front) THEN front ELSE Append(front, x)

\* list(set(xs)): the iteration order of a set of strings is fixed by the
\* string hashes of the running interpreter; a seed stands for one order
list_of_set(xs, seed) ==
    LET u == unique(xs)
        n == Len(u)
    IN  [i \in 1..n |-> u[((i - 1 + seed) % n) + 1]]

\* quantified_results of experience_quality_indicators, as re.search tests:
\* \d+%   \$\d+   \d+\s*million   \d+k   \d+\s*years
quantified_results_count(t) ==
    LET after_digit == {p + 1 : p \in {i \in 1..Len(t) : IsDigitAt(t, i) /\ ~IsDigitAt(t, i + 1)}}
        b2n(b) == IF b THEN 1 ELSE 0
    IN    b2n(AfterLit(t, after_digit, "%") # {})
        + b2n(\E p \in Occurrences(t, "$") : IsDigitAt(t, p + 1))
        + b2n(AfterLit(t, AfterWsAll(t, after_digit), "million") # {})
        + b2n(AfterLit(t, after_digit, "k") # {})
        + b2n(AfterLit(t, AfterWsAll(t, after_digit), "years") # {})

\* sum(1 for word in words if word in text)
count_contained(words, text) == Cardinality({k \in DOMAIN words : Contains(text, words[k])})

assess_experience_quality(text) ==
    LET text_lower == lower(text)
        high_impact_count == count_contained(high_impact, text_lower)
        quantified_count == quantified_results_count(text_lower)
        leadership_count == count_contained(team_leadership, text_lower)
        quality_score == 50 + Min({high_impact_count * 5, 20})
                            + Min({quantified_count * 3, 15})
                            + Min({leadership_count * 4, 15})
    IN  Min({quality_score, 100})

\* the matches of the four experience patterns, in the order of years_found
experience_year_strings(text) ==
    LET t == lower(text)
    IN     findall_years_of_experience(t)
        \o findall_year_range(t)
        \o findall_prefixed_years(t, ends_of(t, "over"))
        \o run_strings(t, {s \in DigitRunStarts(t) :
                              years_of_professional_at(t, DigitRunEnd(t, s))})

\* quality_indicators of the result is read by no caller and needs no
\* conversion; it is left out of the record
experience_with_quality(year_strings, found, text, seed) ==
    IF any_int_raises(year_strings) THEN Raise("ValueError")
    ELSE LET years_found == ints(year_strings)
             companies == [i \in DOMAIN found |-> strip(found[i])]
             kept == SelectSeqOf(companies, {i \in DOMAIN companies : Len(companies[i]) > 2})
         IN  Ok([years_experience |-> years_found,
                 max_years |-> IF years_found # <<>> THEN Max(Range(years_found)) ELSE 0,
                 companies |-> SubSeq(list_of_set(kept, seed), 1,
                                      Min({10, Len(unique(kept))})),
                 quality_score |-> assess_experience_quality(text)])

\* the matches of the experience patterns, then those of the company patterns
extract_experience_with_quality(text, seed) ==
    experience_with_quality(experience_year_strings(text),
                            company_after_at(text) \o company_before_suffix(text),
                            text, seed)

-----------------------------------------------------------------------------
(* Education Parser                                                        *)

\* \b(bachelor|master|phd|doctorate|diploma|certificate)\b
degree_levels == <<"bachelor", "master", "phd", "doctorate", "diploma", "certificate">>

\* \b(b\.?tech|m\.?tech|b\.?sc|m\.?sc|mba|bba|b\.?com|m\.?com|be|me)\b
degree_abbreviations ==
    <<"b.tech", "btech", "m.tech", "mtech", "b.sc", "bsc", "m.sc", "msc", "mba", "bba",
      "b.com", "bcom", "m.com", "mcom", "be", "me">>

\* \b(engineering|computer science|information technology|statistics|
\*    mathematics|business administration)\b
degree_fields ==
    <<"engineering", "computer science", "information technology", "statistics",
      "mathematics", "business administration">>

\* re.findall of \b(w1|w2|...)\b: the words found, by position
findall_words(t, words) ==
    LET at(p) == {k \in DOMAIN words :
                    LitAt(t, p, words[k]) /\ WordBoundary(t, p + Len(words[k]))}
        starts == SeqOfSet({p \in 1..Len(t) : WordBoundary(t, p) /\ at(p) # {}})
    IN  [i \in DOMAIN starts |-> words[Min(at(starts[i]))]]

\* re.findall of <keyword>[:\s]*(\d+\.?\d*)
findall_grade(t, keyword) ==
    LET number_start(p) ==
            Min({q \in (p + Len(keyword))..(Len(t) + 1) :
                    Ch(t, q) \notin (Whitespace \cup {":"})})
        number_end(q) ==
            LET d == DigitRunEnd(t, q)
            IN  IF Ch(t, d) = "." THEN DigitRunEnd(t, d + 1) ELSE d
        starts == SeqOfSet({p \in Occurrences(t, keyword) : IsDigitAt(t, number_start(p))})
    IN  [i \in DOMAIN starts |->
            LET q == number_start(starts[i])
            IN  SubSeq(t, q, number_end(q) - 1)]

prestigious_keywords == <<"mit", "stanford", "harvard", "cambridge", "oxford", "iit", "nit">>

achievement_keywords ==
    <<"magna cum laude", "summa cum laude", "dean's list", "scholarship", "honors">>

assess_education_quality(text) ==
    LET text_lower == lower(text)
        prestige == IF count_contained(prestigious_keywords, text_lower) > 0 THEN 20 ELSE 0
        achievement_count == count_contained(achievement_keywords, text_lower)
    IN  Min({50 + prestige + Min({achievement_count * 5, 15}), 100})

\* gpa_scores and highest_gpa are in thousandths
extract_education_with_context(text, seed) ==
    LET t == lower(text)
        degrees ==    findall_words(t, degree_levels)
                   \o findall_words(t, degree_abbreviations)
                   \o findall_words(t, degree_fields)
        grades == findall_grade(t, "gpa") \o findall_grade(t, "cgpa") \o findall_grade(t, "grade")
        gpa_scores == [i \in DOMAIN grades |-> float_thousandths(grades[i])]
    IN  [degrees |-> list_of_set(degrees, seed),
         gpa_scores |-> gpa_scores,
         highest_gpa |-> IF gpa_scores # <<>> THEN <<Max(Range(gpa_scores))>> ELSE None,
         education_quality |-> assess_education_quality(text)]

-----------------------------------------------------------------------------
(* Achievements                                                            *)

achievement_verbs == <<"increased", "improved", "reduced", "achieved", "delivered">>

\* where a greedy [^.]{0,limit} that starts at a stops
nodot_end(t, a, limit) ==
    Min({j \in a..(a + limit) : j > Len(t) \/ Ch(t, j) = "."} \cup {a + limit})

\* re.findall of (<verb>[^.]{0,100}\d+[^.]{0,50})
findall_achievement(t, verb) ==
    LET last_digit(p) ==
            LET a == p + Len(verb)
                hi == nodot_end(t, a, 100)
                K == {q \in a..hi : IsDigitAt(t, q)}
            IN  IF K = {} THEN 0
                ELSE CHOOSE q \in K : \A j \in (q + 1)..hi : ~IsDigitAt(t, j)
        match_end(p) == nodot_end(t, DigitRunEnd(t, last_digit(p)), 50)
        M == {<<p, match_end(p), SubSeq(t, p, match_end(p) - 1)>> :
                p \in {x \in Occurrences(t, verb) : last_digit(x) # 0}}
    IN  scan_matches(M, 1)

\* any(word in text for word in words)
contains_any(text, words) == \E k \in DOMAIN words : Contains(text, words[k])

categorize_achievement(achievement) ==
    LET achievement_lower == lower(achievement)
    IN  IF contains_any(achievement_lower, <<"revenue", "profit", "sales">>) THEN "financial"
        ELSE IF contains_any(achievement_lower, <<"efficiency", "process", "productivity">>)
        THEN "operational"
        ELSE IF contains_any(achievement_lower, <<"customer", "client", "user">>)
        THEN "customer_focused"
        ELSE "general"

\* re.findall(r'(\d+)%', achievement)
findall_percentages(achievement) ==
    run_strings(achievement,
        {s \in DigitRunStarts(achievement) : Ch(achievement, DigitRunEnd(achievement, s)) = "%"})

assess_impact_level(achievement) ==
    LET percentages == findall_percentages(achievement)
    IN  IF percentages # <<>>
        THEN IF any_int_raises(percentages) THEN Raise("ValueError")
             ELSE LET max_percentage == Max(Range(ints(percentages)))
                  IN  IF max_percentage >= 50 THEN Ok("high")
                      ELSE IF max_percentage >= 20 THEN Ok("medium")
                      ELSE Ok("low")
        ELSE IF \E p \in Occurrences(achievement, "$") : IsDigitAt(achievement, p + 1)
        THEN Ok("high")
        ELSE Ok("medium")

extract_quantified_achievements(text) ==
    LET t == lower(text)
        matches == Concat([k \in DOMAIN achievement_verbs |->
                              findall_achievement(t, achievement_verbs[k])])
    IN  IF \E i \in DOMAIN matches : assess_impact_level(matches[i]).raised
        THEN Raise("ValueError")
        ELSE Ok([i \in DOMAIN matches |->
                    [statement |-> strip(matches[i]),
                     type |-> categorize_achievement(matches[i]),
                     impact_level |-> assess_impact_level(matches[i]).value]])

-----------------------------------------------------------------------------
(* Job Requirement Extractor                                               *)

\* Fractions: a value n/d is kept as <<n, d>> with d > 0
frac_less(a, b) == a[1] * b[2] < b[1] * a[2]

frac_leq(a, b) == a[1] * b[2] <= b[1] * a[2]

\* round(n/d, 2), in hundredths
round2(a) == round_half_even(100 * a[1], a[2])

\* max(role_scores, key=role_scores.get) taking the last of the roles that
\* share the highest confidence
identify_job_role_with_confidence_last_max(job_description) ==
    IF job_description = "" THEN <<"general", <<0, 1>>>>
    ELSE LET text_lower == lower(job_description)
             score(i) == count_contained(job_role_keywords[i].keywords, text_lower)
             confidence(i) == <<score(i), Len(job_role_keywords[i].keywords)>>
             role_scores == {i \in DOMAIN job_role_keywords : score(i) > 0}
         IN  IF role_scores # {}
             THEN LET best_role ==
                          Max({i \in role_scores :
                                  \A j \in role_scores : frac_leq(confidence(j), confidence(i))})
                  IN  <<job_role_keywords[best_role].role, confidence(best_role)>>
             ELSE <<"general", <<0, 1>>>>

\* the confidence is score / len(keywords), a fraction
identify_job_role_with_confidence(job_description) ==
    IF job_description = "" THEN <<"general", <<0, 1>>>>
    ELSE LET text_lower == lower(job_description)
             score(i) == count_contained(job_role_keywords[i].keywords, text_lower)
             confidence(i) == <<score(i), Len(job_role_keywords[i].keywords)>>
             role_scores == {i \in DOMAIN job_role_keywords : score(i) > 0}
         IN  IF role_scores # {}
             THEN LET best_role ==
                          Min({i \in role_scores :
                                  \A j \in role_scores : frac_leq(confidence(j), confidence(i))})
                  IN  <<job_role_keywords[best_role].role, confidence(best_role)>>
             ELSE <<"general", <<0, 1>>>>

\* the subcategories of a category of a skills value, <<>> if it is absent
category_get(skills, category) ==
    LET idx == {i \in DOMAIN skills : skills[i].category = category}
    IN  IF idx = {} THEN <<>> ELSE skills[Min(idx)].subcategories

\* the skills of a subcategory of a category value, <<>> if it is absent
subcategory_get(subcategories, subcategory) ==
    LET idx == {j \in DOMAIN subcategories : subcategories[j].subcategory = subcategory}
    IN  IF idx = {} THEN <<>> ELSE subcategories[Min(idx)].skills

\* prioritized_skills: the required categories the job description has, then
\* its other categories
prioritize_skills(job_skills, required_categories) ==
    LET first == SelectSeqOf(required_categories,
                     {i \in DOMAIN required_categories :
                         has_category(job_skills, required_categories[i])})
        prioritized == [i \in DOMAIN first |->
                           [category |-> first[i],
                            subcategories |-> category_get(job_skills, first[i])]]
    IN  prioritized \o SelectSeqOf(job_skills,
                           {i \in DOMAIN job_skills : job_skills[i].category \notin Range(first)})

extract_required_skills_from_job(job_description, job_role) ==
    prioritize_skills(extract_skills_with_context(job_description),
                      role_config(job_role).required_skills)

\* the matches of the three experience patterns of a job description
requirement_year_strings(job_description) ==
    LET t == lower(job_description)
    IN     findall_years_of_experience(t)
        \o findall_prefixed_years(t, ends_of(t, "minimum"))
        \o findall_prefixed_years(t, AfterLit(t, AfterWsAll(t, ends_of(t, "at")), "least"))

experience_requirements(year_strings) ==
    IF any_int_raises(year_strings) THEN Raise("ValueError")
    ELSE LET years_found == ints(year_strings)
         IN  Ok([min_years |-> IF years_found # <<>> THEN Min(Range(years_found)) ELSE 0,
                 preferred_years |->
                     IF years_found # <<>> THEN Max(Range(years_found)) ELSE 0])

extract_experience_requirements_from_job(job_description) ==
    experience_requirements(requirement_year_strings(job_description))

education_keywords ==
    <<"bachelor", "master", "phd", "doctorate", "degree", "b.tech", "m.tech", "mba", "bba">>

extract_education_requirements_from_job(job_description) ==
    LET text_lower == lower(job_description)
        required_education ==
            SelectSeqOf(education_keywords,
                {k \in DOMAIN education_keywords : Contains(text_lower, education_keywords[k])})
    IN  [required_degrees |-> required_education,
         degree_required |-> Len(required_education) > 0]

stop_words ==
    {"the", "a", "an", "and", "or", "but", "in", "on", "at", "to", "for", "of", "with", "by"}

RECURSIVE order_desc(_, _)
\* the indices of `remaining` by descending key, equal keys by ascending index
\* (a stable sort with reverse=True)
order_desc(keys, remaining) ==
    IF remaining = {} THEN <<>>
    ELSE LET b == CHOOSE i \in remaining :
                      \A j \in remaining : keys[j] < keys[i] \/ (keys[j] = keys[i] /\ i <= j)
         IN  <<b>> \o order_desc(keys, remaining \ {b})

\* re.sub(r'[^\w\s]', ' ', text).split(): the maximal runs of word characters
split_words(t) ==
    LET starts == SeqOfSet({i \in 1..Len(t) : IsWordAt(t, i) /\ ~IsWordAt(t, i - 1)})
    IN  [k \in DOMAIN starts |->
            SubSeq(t, starts[k],
                   Min({j \in starts[k]..(Len(t) + 1) : ~IsWordAt(t, j)}) - 1)]

\* Counter(meaningful_words).most_common(15)
most_common_words(words) ==
    LET meaningful_words ==
            SelectSeqOf(words, {k \in DOMAIN words :
                                  Len(words[k]) > 2 /\ words[k] \notin stop_words})
        distinct == unique(meaningful_words)
        count == [i \in DOMAIN distinct |->
                     Cardinality({k \in DOMAIN meaningful_words :
                                     meaningful_words[k] = distinct[i]})]
        most_common == order_desc(count, DOMAIN distinct)
    IN  [i \in 1..Min({15, Len(most_common)}) |-> distinct[most_common[i]]]

extract_job_keywords(job_description) ==
    IF job_description = "" THEN <<>>
    ELSE most_common_words(split_words(lower(job_description)))

\* the requirements once the role and the experience requirements are known
comprehensive_job_requirements(identified, experience_req, job_description) ==
    IF experience_req.raised THEN experience_req
    ELSE Ok([job_role |-> identified[1],
             role_confidence |-> identified[2],
             required_skills |-> extract_required_skills_from_job(job_description,
                                                                  identified[1]),
             experience_requirements |-> experience_req.value,
             education_requirements |->
                 extract_education_requirements_from_job(job_description),
             keywords |-> extract_job_keywords(job_description)])

extract_comprehensive_job_requirements(job_description) ==
    comprehensive_job_requirements(identify_job_role_with_confidence(job_description),
                                   extract_experience_requirements_from_job(job_description),
                                   job_description)

-----------------------------------------------------------------------------
(* Fit Scorers                                                             *)

\* any(skill.lower() in resume_skill.lower() for resume_skill in resume_skills)
skill_in_any(skill, resume_skills) ==
    \E k \in DOMAIN resume_skills : Contains(lower(resume_skills[k]), lower(skill))

\* matched_skills of calculate_skills_match
matched_skills_count(resume_skills, required_skills) ==
    LET per_sub(category, sub) ==
            Cardinality({k \in DOMAIN sub.skills :
                skill_in_any(sub.skills[k],
                    subcategory_get(category_get(resume_skills, category), sub.subcategory))})
        per_cat(cat) ==
            [j \in DOMAIN cat.subcategories |-> per_sub(cat.category, cat.subcategories[j])]
    IN  Sum(Concat([i \in DOMAIN required_skills |-> per_cat(required_skills[i])]))

\* the matched skills as a percentage of the resume's skills
calculate_skills_match_of_resume(resume_skills, required_skills) ==
    IF required_skills = <<>> THEN <<50, 1>>
    ELSE LET total_resume == count_total_skills(resume_skills)
             matched_skills == matched_skills_count(resume_skills, required_skills)
         IN  IF total_resume > 0 THEN <<100 * matched_skills, total_resume>>
             ELSE <<0, 1>>

\* the percentage, as a fraction
calculate_skills_match(resume_skills, required_skills) ==
    IF required_skills = <<>> THEN <<50, 1>>
    ELSE LET total_required == count_total_skills(required_skills)
             matched_skills == matched_skills_count(resume_skills, required_skills)
         IN  IF total_required > 0 THEN <<100 * matched_skills, total_required>>
             ELSE <<0, 1>>

\* the bonus for exceeding the requirement without its limit of 25
calculate_experience_fit_unlimited_bonus(candidate_years, required_years) ==
    IF required_years = 0 THEN 75
    ELSE IF candidate_years >= required_years
    THEN 75 + (candidate_years - required_years) * 5
    ELSE Max({0, 75 - (required_years - candidate_years) * 10})

calculate_experience_fit(candidate_years, required_years) ==
    IF required_years = 0 THEN 75
    ELSE IF candidate_years >= required_years
    THEN Min({100, 75 + Min({(candidate_years - required_years) * 5, 25})})
    ELSE Max({0, 75 - (required_years - candidate_years) * 10})

\* degree_hierarchy of calculate_education_fit
degree_hierarchy ==
    <<<<"certificate", 1>>, <<"diploma", 2>>, <<"bachelor", 3>>, <<"master", 4>>, <<"phd", 5>>>>

\* the highest value of a hierarchy whose level name is in one of the degrees
degree_level(degrees, hierarchy) ==
    Max({0} \cup {hierarchy[k][2] :
                    k \in {h \in DOMAIN hierarchy :
                              \E i \in DOMAIN degrees :
                                  Contains(lower(degrees[i]), hierarchy[h][1])}})

calculate_education_fit(education, education_req) ==
    IF ~education_req.degree_required THEN 75
    ELSE IF education.degrees = <<>> THEN 20
    ELSE LET candidate_level == degree_level(education.degrees, degree_hierarchy)
             required_level == degree_level(education_req.required_degrees, degree_hierarchy)
         IN  IF candidate_level >= required_level THEN 100
             ELSE IF candidate_level = required_level - 1 THEN 80
             ELSE 50

\* the percentage, as a fraction
calculate_keyword_match(resume_skills, job_keywords) ==
    IF job_keywords = <<>> THEN <<50, 1>>
    ELSE LET subs == Concat([i \in DOMAIN resume_skills |-> resume_skills[i].subcategories])
             parts == [j \in DOMAIN subs |-> " " \o Join(subs[j].skills, " ")]
             resume_text_lower == lower(Join(parts, ""))
             matched_keywords == count_contained(job_keywords, resume_text_lower)
         IN  <<100 * matched_keywords, Len(job_keywords)>>

\* every value of the result is in hundredths
weighted_job_fit(skills_match, experience_fit, education_fit, keyword_match, role_weights) ==
    LET w_skills == IF role_weights # <<>> THEN weight_get(role_weights, "skills", 40) ELSE 40
        w_experience ==
            IF role_weights # <<>> THEN weight_get(role_weights, "experience", 30) ELSE 30
        w_education ==
            IF role_weights # <<>> THEN weight_get(role_weights, "education", 20) ELSE 20
        \* overall_fit * 100 as one fraction
        overall_fit ==
            <<  skills_match[1] * w_skills * keyword_match[2]
              + (experience_fit * w_experience + education_fit * w_education)
                    * skills_match[2] * keyword_match[2]
              + keyword_match[1] * 10 * skills_match[2],
              skills_match[2] * keyword_match[2]>>
    IN  [overall_fit |-> round_half_even(overall_fit[1], overall_fit[2]),
         skills_match |-> round2(skills_match),
         experience_fit |-> 100 * experience_fit,
         education_fit |-> 100 * education_fit,
         keyword_match |-> round2(keyword_match)]

\* every value of the result is in hundredths
calculate_job_fit_score(resume_analysis, job_requirements) ==
    weighted_job_fit(
        calculate_skills_match(resume_analysis.skills, job_requirements.required_skills),
        calculate_experience_fit(resume_analysis.experience.max_years,
                                 job_requirements.experience_requirements.min_years),
        calculate_education_fit(resume_analysis.education,
                                job_requirements.education_requirements),
        calculate_keyword_match(resume_analysis.skills, job_requirements.keywords),
        role_config(job_requirements.job_role).weights)

-----------------------------------------------------------------------------
(* Contextual Match Engine                                                 *)

\* Scores that are combined are in units of 1/10000 of a point
U == 100 * 100

_get_resume_text_from_analysis(resume_analysis) ==
    LET statements == [i \in DOMAIN resume_analysis.achievements |->
                          resume_analysis.achievements[i].statement]
        text_parts == all_skill_list(resume_analysis.skills) \o statements
    IN  lower(Join(text_parts, " "))

calculate_passion_bonus(resume_text, job_role) ==
    LET resume_lower == lower(resume_text)
        midx == {i \in DOMAIN passion_mapping : passion_mapping[i][1] = job_role}
        pidx == IF midx = {} THEN {}
                ELSE {i \in DOMAIN passion_indicators :
                         passion_indicators[i].category = passion_mapping[Min(midx)][2]}
        passion_bonus ==
            IF pidx = {} THEN 0
            ELSE 5 * count_contained(passion_indicators[Min(pidx)].indicators, resume_lower)
    IN  Min({passion_bonus, 15})

\* no role is in demand
calculate_demand_bonus_none(job_role) == 0

calculate_demand_bonus(job_role) ==
    IF job_role \in Range(high_demand_roles) THEN demand_bonus_points ELSE 0

_generate_match_reasoning(match_level, matched_categories, job_role) ==
    IF match_level = "perfect_match"
    THEN "Perfect fit for " \o job_role \o " - has all required skills: "
             \o Join(matched_categories, ", ")
    ELSE IF match_level = "good_match"
    THEN "Strong fit for " \o job_role \o " - has most required skills: "
             \o Join(matched_categories, ", ")
    ELSE IF match_level = "partial_match"
    THEN "Partial fit for " \o job_role \o " - has some relevant skills: "
             \o Join(matched_categories, ", ")
    ELSE "Limited fit for " \o job_role \o " - missing key skills"

\* the match level of a match percentage (a fraction)
\* the levels without the two middle ones
match_level_of_two_levels(match_percentage) ==
    IF frac_leq(<<80, 1>>, match_percentage) THEN "perfect_match" ELSE "no_match"

\* the levels with good_match from one half of the required categories
match_level_of_good_from_half(match_percentage) ==
    IF frac_leq(<<80, 1>>, match_percentage) THEN "perfect_match"
    ELSE IF frac_leq(<<50, 1>>, match_percentage) THEN "good_match"
    ELSE IF frac_leq(<<30, 1>>, match_percentage) THEN "partial_match"
    ELSE "no_match"

match_level_of(match_percentage) ==
    IF frac_leq(<<80, 1>>, match_percentage) THEN "perfect_match"
    ELSE IF frac_leq(<<60, 1>>, match_percentage) THEN "good_match"
    ELSE IF frac_leq(<<30, 1>>, match_percentage) THEN "partial_match"
    ELSE "no_match"

\* the match of a role with the resume skills; skill_match_percentage is a
\* fraction
contextual_role_match(job_role, resume_skills, resume_text, required_skills) ==
    LET matched_categories ==
            SelectSeqOf(required_skills,
                {i \in DOMAIN required_skills :
                    has_category(resume_skills, required_skills[i])})
        skill_match_score == Len(matched_categories)
        match_percentage ==
            IF Len(required_skills) > 0
            THEN <<100 * skill_match_score, Len(required_skills)>>
            ELSE <<0, 1>>
        match_level == match_level_of(match_percentage)
        bonus_points == role_match_bonus[match_level]
        passion_bonus == calculate_passion_bonus(resume_text, job_role)
        demand_bonus == calculate_demand_bonus(job_role)
    IN  [match_level |-> match_level,
         bonus_points |-> bonus_points + passion_bonus + demand_bonus,
         skill_match_percentage |-> match_percentage,
         matched_categories |-> matched_categories,
         passion_bonus |-> passion_bonus,
         demand_bonus |-> demand_bonus,
         reasoning |-> _generate_match_reasoning(match_level, matched_categories, job_role)]

\* job_requirements is <<>> (the empty dict) or the extracted requirements;
\* skill_match_percentage is a fraction
calculate_contextual_role_match(resume_analysis, job_requirements) ==
    IF job_requirements = <<>>
    THEN [match_level |-> "no_match", bonus_points |-> 0,
          reasoning |-> "No job description provided"]
    ELSE contextual_role_match(job_requirements.job_role, resume_analysis.skills,
                               _get_resume_text_from_analysis(resume_analysis),
                               role_config(job_requirements.job_role).required_skills)

-----------------------------------------------------------------------------
(* Sub-scores, in hundredths                                               *)

\* calculate_resume_score leaves job_role at its default, "general"
skills_score_of(skills, known, required_categories) ==
    LET total_skills == count_total_skills(skills)
        base_score == Min({total_skills * 3, 90})
        diversity_bonus == Min({Len(skills) * 2, 10})
        irrelevant_skills ==
            Sum([i \in DOMAIN skills |->
                    IF skills[i].category \notin required_categories
                    THEN Len(category_skill_list(skills[i])) ELSE 0])
        penalty == IF known THEN irrelevant_skills * 150 ELSE 0
        total_score == 100 * (base_score + diversity_bonus) - penalty
    IN  IF total_skills = 0 THEN 0
        ELSE Max({0, Min({total_score, 100 * 100})})

\* calculate_resume_score leaves job_role at its default, "general"
calculate_skills_score(resume_analysis, job_role) ==
    skills_score_of(resume_analysis.skills,
                    \E i \in 1..Len(industry_role_weights) :
                        industry_role_weights[i].role = job_role,
                    Range(role_config(job_role).required_skills))

calculate_experience_score(resume_analysis) ==
    LET years == resume_analysis.experience.max_years
        quality_score == resume_analysis.experience.quality_score
        years_score == Min({years * 10, 80})
        quality_adjustment == (quality_score - 50) * 40
    IN  Max({0, Min({100 * years_score + quality_adjustment, 100 * 100})})

\* degree_hierarchy of calculate_education_score
degree_scores ==
    <<<<"certificate", 40>>, <<"diploma", 50>>, <<"bachelor", 70>>, <<"master", 85>>,
      <<"phd", 95>>>>

calculate_education_score(resume_analysis) ==
    LET education == resume_analysis.education
        degrees == education.degrees
        gpa == education.highest_gpa
        quality == education.education_quality
        degree_score == degree_level(degrees, degree_scores)
        gpa_bonus == IF gpa # None /\ gpa[1] # 0
                     THEN IF gpa[1] >= 3500 THEN 10
                          ELSE IF gpa[1] >= 3000 THEN 5 ELSE 0
                     ELSE 0
        quality_adjustment == (quality - 50) * 20
    IN  IF degrees = <<>> THEN 100 * 30
        ELSE Min({100 * (degree_score + gpa_bonus) + quality_adjustment, 100 * 100})

-----------------------------------------------------------------------------
(* Recommendation Generator                                                *)

\* the verdict without the branch for a role-specific fit
recommendation_verdict_by_score(final_score, match_level, job_role) ==
    IF final_score >= 85 * U
    THEN "**HIGHLY RECOMMENDED**: Outstanding candidate with excellent qualifications"
    ELSE IF final_score >= 75 * U
    THEN "**RECOMMENDED**: Strong candidate with good potential"
    ELSE IF final_score >= 65 * U
    THEN "**CONSIDER**: Decent candidate worth reviewing"
    ELSE IF final_score >= 50 * U
    THEN "**REVIEW CAREFULLY**: Average candidate with some gaps"
    ELSE "**NOT RECOMMENDED**: Significant gaps in qualifications"

\* the first line of the recommendations: the overall assessment
recommendation_verdict(final_score, match_level, job_role) ==
    IF final_score >= 85 * U
    THEN "**HIGHLY RECOMMENDED**: Outstanding candidate with excellent qualifications"
    ELSE IF final_score >= 75 * U
    THEN "**RECOMMENDED**: Strong candidate with good potential"
    ELSE IF final_score >= 65 * U
    THEN "**CONSIDER**: Decent candidate worth reviewing"
    ELSE IF match_level \in {"perfect_match", "good_match"} /\ final_score >= 45 * U
    THEN "**ROLE-SPECIFIC FIT**: Strong match for " \o job_role
             \o " position despite limited overall experience"
    ELSE IF final_score >= 50 * U
    THEN "**REVIEW CAREFULLY**: Average candidate with some gaps"
    ELSE "**NOT RECOMMENDED**: Significant gaps in qualifications"

\* the appends in an order in which the achievements note comes before the
\* skills and experience warnings
recommendations_achievements_first(first_line, bonus, culinary, development, entry, results) ==
    <<first_line>> \o bonus \o culinary \o results \o development \o entry

\* the appends of generate_enhanced_recommendations, in their order
recommendations_in_order(first_line, bonus, culinary, development, entry, results) ==
    <<first_line>> \o bonus \o culinary \o development \o entry \o results

\* final_score is in units of 1/U; the pictographs that open the messages
\* of the source are left out
generate_enhanced_recommendations(resume_analysis, job_requirements, final_score, contextual_match) ==
    LET match_level == contextual_match.match_level
        bonus_points == contextual_match.bonus_points
        job_role == IF job_requirements # <<>> THEN job_requirements.job_role ELSE "general"
        verdict == recommendation_verdict(final_score, match_level, job_role)
        has(field) == field \in DOMAIN contextual_match /\ contextual_match[field] > 0
        bonus_explanation ==
               (IF has("passion_bonus") THEN <<"passion indicators">> ELSE <<>>)
            \o (IF has("demand_bonus") THEN <<"high-demand role">> ELSE <<>>)
            \o (IF match_level # "no_match" THEN <<"role-specific skills">> ELSE <<>>)
        bonus ==
            IF bonus_points > 0 /\ bonus_explanation # <<>>
            THEN <<"**BONUS POINTS** (+" \o ToString(bonus_points) \o "): "
                       \o Join(bonus_explanation, ", ")>>
            ELSE <<>>
        culinary_skills == category_get(resume_analysis.skills, "culinary_skills")
        skill_count == Sum([j \in DOMAIN culinary_skills |-> Len(culinary_skills[j].skills)])
        culinary ==
            IF job_role = "chef" \/ job_role = "cook"
            THEN IF culinary_skills # <<>>
                 THEN IF skill_count >= 5
                      THEN <<"**CULINARY EXPERTISE**: Strong culinary background with diverse skills">>
                      ELSE <<"**CULINARY POTENTIAL**: Some culinary skills - may need training in specific areas">>
                 ELSE <<"**CULINARY TRAINING NEEDED**: No culinary background found - extensive training required">>
            ELSE <<>>
        development ==
            IF count_total_skills(resume_analysis.skills) < 5
            THEN <<"**Skills Development**: Limited skills - focused training recommended">>
            ELSE <<>>
        entry ==
            IF resume_analysis.experience.max_years < 1
            THEN <<"**Entry Level**: No prior experience - suitable for entry-level with mentoring">>
            ELSE <<>>
        results ==
            IF Len(resume_analysis.achievements) >= 2
            THEN <<"**Results-Oriented**: Demonstrates achievements and impact">>
            ELSE <<>>
    IN  recommendations_in_order(verdict, bonus, culinary, development, entry, results)

\* base_score is in units of 1/U; {base_score:.1f} prints it to one decimal
_generate_scoring_rationale(base_score, contextual_bonus, job_role) ==
    LET tenths == round_half_even(base_score, U \div 10)
        rationale == "Base score: " \o ToString(tenths \div 10) \o "." \o ToString(tenths % 10)
    IN  IF contextual_bonus > 0
        THEN rationale \o " + " \o ToString(contextual_bonus) \o " contextual bonus"
                 \o (IF job_role \in Range(high_demand_roles)
                     THEN " (role-specific fit for " \o job_role \o " position)"
                     ELSE "")
        ELSE rationale

-----------------------------------------------------------------------------
(* Final Score Composer                                                    *)

\* The outcome of a call: the report it returned, or the exception it raised
Returned(r) == [returned |-> TRUE, value |-> r]

Propagated(e) == [returned |-> FALSE, value |-> [exception |-> e]]

\* re.findall of the years pattern of generate_fallback_score
fallback_year_strings(resume_text) == findall_years_of_experience(lower(resume_text))

\* basic_skills of generate_fallback_score: a plain substring test per skill
fallback_basic_skills(resume_text) ==
    LET text_lower == lower(resume_text)
        found(cat) ==
            LET all == category_skill_list(cat)
            IN  SelectSeqOf(all, {k \in DOMAIN all : Contains(text_lower, lower(all[k]))})
        per_category == [i \in DOMAIN skills_db |->
                            [category |-> skills_db[i].category, skills |-> found(skills_db[i])]]
    IN  SelectSeqOf(per_category, {i \in DOMAIN per_category : per_category[i].skills # <<>>})

\* scores in hundredths, confidence_level a fraction
fallback_score(basic_skills, years_matches) ==
    IF any_int_raises(years_matches) THEN Raise("ValueError")
    ELSE LET max_years == IF years_matches # <<>> THEN Max(Range(ints(years_matches)))
                          ELSE 0
             skill_count == Sum([i \in DOMAIN basic_skills |-> Len(basic_skills[i].skills)])
             basic_score == Min({skill_count * 3 + max_years * 5, 100})
         IN  Ok([overall_score |-> 100 * basic_score,
                 detailed_scores |-> [skills |-> basic_score * 60,
                                      experience |-> 100 * (max_years * 10),
                                      education |-> 100 * 50],
                 skills_found |-> basic_skills,
                 experience_info |-> [max_years |-> max_years, companies |-> <<>>],
                 education_info |-> [degrees |-> <<>>, cgpa |-> None],
                 total_skills_count |-> skill_count,
                 job_role_identified |-> "general",
                 recommendations |->
                     <<"Basic analysis completed - some features may not be available">>,
                 confidence_level |-> <<3, 10>>])

\* scores in hundredths, confidence_level a fraction
generate_fallback_score(resume_text) ==
    fallback_score(fallback_basic_skills(resume_text), fallback_year_strings(resume_text))

\* base_score of calculate_resume_score, in units of 1/U
compose_base_score(with_job, overall_fit, skills_score, experience_score, education_score) ==
    IF with_job
    THEN overall_fit * 70 + skills_score * 20 + experience_score * 15 + education_score * 5
    ELSE skills_score * 35 + experience_score * 30 + education_score * 25 + 50 * 10 * 100

\* the sum without the cap at 100
cap_final_score_uncapped(base_score, contextual_bonus) == base_score + contextual_bonus * U

\* final_score before the threshold logic, in units of 1/U
cap_final_score(base_score, contextual_bonus) == Min({base_score + contextual_bonus * U, 100 * U})

\* the threshold logic left out
apply_minimum_threshold_unfloored(final_score, match_level, minimum_threshold) == final_score

\* the threshold logic of calculate_resume_score
apply_minimum_threshold(final_score, match_level, minimum_threshold) ==
    IF /\ match_level \in {"perfect_match", "good_match", "partial_match"}
       /\ final_score < minimum_threshold * U
    THEN minimum_threshold * U
    ELSE final_score

\* The try block of calculate_resume_score: Raise if a stage raised, else Ok of
\* the report and of the local variables a property refers to
\* the report of calculate_resume_score and the local variables a property
\* refers to, from the values the stages have computed
score_report(resume_analysis, job_requirements, contextual_match, job_fit_analysis, skills_score, experience_score, education_score, with_job, job_role) ==
    LET base_score ==
            compose_base_score(with_job,
                IF job_fit_analysis # <<>> THEN job_fit_analysis.overall_fit ELSE 50 * 100,
                skills_score, experience_score, education_score)
        contextual_bonus == contextual_match.bonus_points
        capped == cap_final_score(base_score, contextual_bonus)
        minimum_threshold == role_config(job_role).minimum_threshold
        final_score ==
            apply_minimum_threshold(capped, contextual_match.match_level, minimum_threshold)
    IN  [report |->
            [overall_score |->
                 round_half_even(Max({0, Min({final_score, 100 * U})}), 100),
             base_score |-> round_half_even(base_score, 100),
             contextual_bonus |-> contextual_bonus,
             detailed_scores |->
                 [job_fit |-> IF job_fit_analysis # <<>>
                              THEN <<job_fit_analysis.overall_fit>> ELSE None,
                  skills |-> skills_score,
                  experience |-> experience_score,
                  education |-> education_score],
             contextual_analysis |-> contextual_match,
             job_fit_analysis |-> job_fit_analysis,
             skills_found |-> format_skills_for_display(resume_analysis.skills),
             experience_info |->
                 [max_years |-> resume_analysis.experience.max_years,
                  companies |-> resume_analysis.experience.companies],
             education_info |->
                 [degrees |-> resume_analysis.education.degrees,
                  cgpa |-> resume_analysis.education.highest_gpa],
             achievements |-> resume_analysis.achievements,
             total_skills_count |-> count_total_skills(resume_analysis.skills),
             job_role_identified |-> job_role,
             recommendations |->
                 generate_enhanced_recommendations(resume_analysis, job_requirements,
                                                   final_score, contextual_match),
             confidence_level |->
                 IF job_requirements # <<>> THEN job_requirements.role_confidence
                 ELSE <<1, 2>>,
             scoring_rationale |->
                 _generate_scoring_rationale(base_score, contextual_bonus, job_role)],
         locals |->
            [path |-> "normal",
             base_score |-> base_score,
             contextual_bonus |-> contextual_bonus,
             capped_score |-> capped,
             final_score |-> final_score,
             match_level |-> contextual_match.match_level,
             job_role |-> job_role,
             minimum_threshold |-> minimum_threshold]]

\* the scoring steps of the try block on the analysed resume and the
\* requirements of the job (<<>> without a job description)
score_analysis(resume_analysis, job_requirements, with_job) ==
    score_report(resume_analysis, job_requirements,
                 calculate_contextual_role_match(resume_analysis, job_requirements),
                 IF job_requirements # <<>>
                 THEN calculate_job_fit_score(resume_analysis, job_requirements)
                 ELSE <<>>,
                 calculate_skills_score(resume_analysis, "general"),
                 calculate_experience_score(resume_analysis),
                 calculate_education_score(resume_analysis),
                 with_job,
                 IF job_requirements # <<>> THEN job_requirements.job_role ELSE "general")

\* the try block once the stages that can raise have run
analyze_extracted(experience, achievements, requirements, resume_text, seed, with_job) ==
    IF experience.raised THEN experience
    ELSE IF achievements.raised THEN achievements
    ELSE IF requirements.raised THEN requirements
    ELSE Ok(score_analysis([skills |-> extract_skills_with_context(resume_text),
                            experience |-> experience.value,
                            education |-> extract_education_with_context(resume_text, seed),
                            achievements |-> achievements.value],
                           requirements.value, with_job))

\* The try block of calculate_resume_score: Raise if a stage raised, else Ok of
\* the report and of the local variables a property refers to
analyze_resume(resume_text, job_description, seed) ==
    analyze_extracted(extract_experience_with_quality(resume_text, seed),
                      extract_quantified_achievements(resume_text),
                      IF strip(job_description) # ""
                      THEN extract_comprehensive_job_requirements(job_description)
                      ELSE Ok(<<>>),
                      resume_text, seed, strip(job_description) # "")

\* locals of a call that left the try block by an exception
fallback_locals == [path |-> "fallback"]

\* calculate_resume_score: the outcome and the locals of the call
\* the except clause: the fallback report, or the exception of the fallback
fallback_outcome(fallback) ==
    [outcome |-> IF fallback.raised THEN Propagated(fallback.value)
                 ELSE Returned(fallback.value),
     locals |-> fallback_locals]

\* the outcome and the locals of the call from the result of the try block
score_outcome(normal, resume_text) ==
    IF ~normal.raised
    THEN [outcome |-> Returned(normal.value.report), locals |-> normal.value.locals]
    ELSE fallback_outcome(generate_fallback_score(resume_text))

\* calculate_resume_score: the outcome and the locals of the call
calculate_resume_score(resume_text, job_description, seed) ==
    score_outcome(analyze_resume(resume_text, job_description, seed), resume_text)

-----------------------------------------------------------------------------
(* Inputs of the analysis *)

RECURSIVE repeat(_, _)
\* s * n
repeat(s, n) ==
    IF n = 0 THEN ""
    ELSE IF n % 2 = 1 THEN repeat(s, n - 1) \o s
    ELSE LET half == repeat(s, n \div 2) IN half \o half

\* a numeral with one digit more than int() converts
oversized_numeral == repeat("9", int_max_str_digits + 1)

\* resume texts: empty, skills only, skills and years, a chef's, degrees and
\* companies, grades and achievements, passion phrases, and three texts that
\* hold an oversized numeral (in a years range, in a years phrase, in a
\* percentage)
resume_corpus ==
    << "",
       "python",
       "python, sql, tableau. 3 years experience",
       "kitchen safety, express.js, 6 years of experience",
       "bachelor, master. worked at Acme, at Bolt,",
       "patient care. bsc, gpa 3.6. increased sales 30%",
       "leadership, passion for cooking, grilling",
       oversized_numeral \o "-12 years experience",
       oversized_numeral \o " years of experience",
       "increased sales " \o oversized_numeral \o "%" >>

\* job descriptions: none, blank, an analyst's, a chef's, a scientist's with
\* demanding requirements, and one whose years requirement is oversized
job_description_corpus ==
    << "",
       " \n ",
       "data analyst, python, sql, minimum 2 years",
       "kitchen safety 1 yr exp",
       "data scientist, tableau, phd, minimum 9 years",
       "minimum " \o oversized_numeral \o " years" >>

\* the texts longer than this are the ones with an oversized numeral
MaxPlainLen == 100

\* the number of job descriptions (resume texts) a text with an oversized
\* numeral is analysed with
MaxLongPairs == 2

\* the calls of calculate_resume_score on one pair of inputs
MaxCalls == 2

\* the interpreter's hash seeds are 0..MaxSeed
MaxSeed == 1

HashSeeds == 0..MaxSeed

\* the pairs of inputs the analysis is run on
input_pair(i, j) ==
    /\ Len(resume_corpus[i]) > MaxPlainLen => j <= MaxLongPairs
    /\ Len(job_description_corpus[j]) > MaxPlainLen => i <= MaxLongPairs

-----------------------------------------------------------------------------
(* The login store (components/auth.py), the login state of a browser      *)
(* session (app.py, components/login.py) and the analysis history          *)
(* (utils/helpers.py).  A JSON object and a Python dict are functions on   *)
(* their keys.  The clock counts in steps; a reading of datetime.now() is  *)
(* the number of the step, and timedelta(hours=8) is eight steps.          *)

\* {} of Python
empty_dict == [key \in {} |-> key]

\* dict[key] = value
dict_set(dict, key, value) == [k \in DOMAIN dict \cup {key} |-> IF k = key THEN value ELSE dict[k]]

\* del dict[key]
dict_del(dict, key) == [k \in DOMAIN dict \ {key} |-> dict[k]]

\* dict.get(key, default)
dict_get(dict, key, default) == IF key \in DOMAIN dict THEN dict[key] ELSE default

\* datetime.isoformat() and datetime.fromisoformat(): the text of a clock
\* reading, and the reading of such a text
isoformat(moment) == <<"T", moment>>

fromisoformat(text) == text[2]

\* hashlib.sha256(text.encode()).hexdigest(): equal texts have equal digests,
\* different texts different ones (no collision is modelled)
sha256(text) == "sha256(" \o text \o ")"

hash_password(password) == sha256(password)

\* timedelta(hours=8) of create_session, in steps of the clock
session_hours == 8

\* a file of the data directory: missing, opened for writing and still
\* empty (open(file, 'w') truncates it before json.dump writes), or written
file_missing == [state |-> "missing", json |-> empty_dict]

file_truncated == [state |-> "truncated", json |-> empty_dict]

file_written(dict) == [state |-> "written", json |-> dict]

\* load_users / load_sessions: json.load of the file; any exception (no
\* file, or a text that is not JSON) gives {}
load_json(file) == IF file.state = "written" THEN file.json ELSE empty_dict

load_users(file) == load_json(file)

load_sessions(file) == load_json(file)

\* the accounts ensure_data_files writes when data/users.json does not exist
default_users(at) ==
    [admin |-> [password |-> hash_password("fcg@2024"),
                role |-> "admin",
                full_name |-> "FCG Administrator",
                email |-> "admin@fourcornersgroup.com",
                created_at |-> isoformat(at),
                last_login |-> None],
     hr_manager |-> [password |-> hash_password("hr@fcg123"),
                     role |-> "hr_manager",
                     full_name |-> "HR Manager",
                     email |-> "hr@fourcornersgroup.com",
                     created_at |-> isoformat(at),
                     last_login |-> None]]

\* ensure_data_files, for each of the two files: a missing file is created
ensure_users_file(file, at) == IF file.state = "missing" THEN file_written(default_users(at)) ELSE file

ensure_sessions_file(file) == IF file.state = "missing" THEN file_written(empty_dict) ELSE file

\* authenticate_user on the loaded users: saved tells whether save_users is
\* called with users, returned is the user data or None
authenticate_user(users, username, password, at) ==
    IF username \in DOMAIN users /\ users[username].password = hash_password(password)
    THEN LET user == [users[username] EXCEPT !.last_login = isoformat(at)]
         IN  [saved |-> TRUE,
              users |-> dict_set(users, username, user),
              returned |-> [username |-> username,
                            role |-> user.role,
                            full_name |-> user.full_name,
                            email |-> user.email,
                            last_login |-> user.last_login]]
    ELSE [saved |-> FALSE, users |-> users, returned |-> None]

\* the session id of create_session
new_session_id(user_data, at) == sha256(user_data.username \o ToString(at))

\* create_session on the loaded sessions; save_sessions is always called
create_session(sessions, user_data, at) ==
    LET session_id == new_session_id(user_data, at)
    IN  [saved |-> TRUE,
         sessions |-> dict_set(sessions, session_id,
                               [user_data |-> user_data,
                                created_at |-> isoformat(at),
                                expires_at |-> isoformat(at + session_hours)]),
         returned |-> session_id]

\* validate_session on the loaded sessions, with the expired session kept
validate_session_keeping_expired(sessions, session_id, at) ==
    IF session_id \in DOMAIN sessions /\ at < fromisoformat(sessions[session_id].expires_at)
    THEN [saved |-> FALSE, sessions |-> sessions, returned |-> sessions[session_id].user_data]
    ELSE [saved |-> FALSE, sessions |-> sessions, returned |-> None]

\* validate_session on the loaded sessions
validate_session(sessions, session_id, at) ==
    IF session_id \in DOMAIN sessions
    THEN IF at < fromisoformat(sessions[session_id].expires_at)
         THEN [saved |-> FALSE, sessions |-> sessions,
               returned |-> sessions[session_id].user_data]
         ELSE [saved |-> TRUE, sessions |-> dict_del(sessions, session_id),
               returned |-> None]
    ELSE [saved |-> FALSE, sessions |-> sessions, returned |-> None]

\* logout_user on the loaded sessions
logout_user(sessions, session_id) ==
    IF session_id \in DOMAIN sessions
    THEN [saved |-> TRUE, sessions |-> dict_del(sessions, session_id), returned |-> None]
    ELSE [saved |-> FALSE, sessions |-> sessions, returned |-> None]

\* add_user on the loaded users
add_user(users, username, password, role, full_name, email, at) ==
    IF username \notin DOMAIN users
    THEN [saved |-> TRUE,
          users |-> dict_set(users, username,
                             [password |-> hash_password(password),
                              role |-> role,
                              full_name |-> full_name,
                              email |-> email,
                              created_at |-> isoformat(at),
                              last_login |-> None]),
          returned |-> TRUE]
    ELSE [saved |-> FALSE, users |-> users, returned |-> FALSE]

\* the file after a call that ran alone: save_users / save_sessions writes
\* the dict when the call saves
file_after(file, call, dict) == IF call.saved THEN file_written(dict) ELSE file

\* check_authentication without the call of validate_session
check_authentication_trusting(state, sessions, at) ==
    IF dict_get(state, "authenticated", FALSE) /\ "session_id" \in DOMAIN state
    THEN [session_state |-> state, saved |-> FALSE, sessions |-> sessions,
          validated |-> <<>>, returned |-> TRUE]
    ELSE [session_state |-> state, saved |-> FALSE, sessions |-> sessions,
          validated |-> <<>>, returned |-> FALSE]

\* check_authentication on st.session_state and the loaded sessions: the
\* session state and the sessions afterwards, what validate_session returned
\* (<<>> when it was not called) and the result.  A session id in the session
\* state is a digest, never None or empty
check_authentication(state, sessions, at) ==
    IF ~dict_get(state, "authenticated", FALSE)
    THEN [session_state |-> state, saved |-> FALSE, sessions |-> sessions,
          validated |-> <<>>, returned |-> FALSE]
    ELSE IF "session_id" \notin DOMAIN state
    THEN [session_state |-> state, saved |-> FALSE, sessions |-> sessions,
          validated |-> <<>>, returned |-> FALSE]
    ELSE LET call == validate_session(sessions, state["session_id"], at)
         IN  IF call.returned = None
             THEN [session_state |-> dict_set(state, "authenticated", FALSE),
                   saved |-> call.saved, sessions |-> call.sessions,
                   validated |-> <<call.returned>>, returned |-> FALSE]
             ELSE [session_state |-> dict_set(state, "user_data", call.returned),
                   saved |-> call.saved, sessions |-> call.sessions,
                   validated |-> <<call.returned>>, returned |-> TRUE]

\* one run of the script up to the page it shows (app.py:24-31, main): the
\* AuthManager is built, which creates a missing sessions file, then
\* check_authentication decides between the login page and the application
main(state, file, at) ==
    LET ensured == ensure_sessions_file(file)
        sessions == load_sessions(ensured)
        auth == check_authentication(state, sessions, at)
    IN  [session_state |-> auth.session_state,
         sessions_file |-> file_after(ensured, auth, auth.sessions),
         page_shown |-> IF auth.returned THEN "main" ELSE "login",
         last_run |-> [checked |-> TRUE, at |-> at, state |-> state,
                       sessions |-> sessions, validated |-> auth.validated]]

\* a file two writers had open at once, the shorter text written last: the
\* end of the longer text is left behind it, and the whole is not JSON
file_garbled == [state |-> "garbled", json |-> empty_dict]

\* a call of AuthManager that has not read its file yet
new_request(method, argument) ==
    [method |-> method, argument |-> argument, pc |-> "load", saved |-> FALSE,
     dict |-> empty_dict, returned |-> None]

\* the call after its load_users / load_sessions and the change of the dict:
\* it goes on to save the dict, or it has returned
loaded_request(request, call, dict) ==
    [request EXCEPT !.pc = IF call.saved THEN "open" ELSE "done",
                    !.saved = call.saved,
                    !.dict = dict,
                    !.returned = call.returned]

\* save_users / save_sessions, first half: open(file, 'w') empties the file
opened_file(file) == file_truncated

\* save_users / save_sessions, second half: json.dump and the close of the
\* file.  The file is still empty unless another call wrote it in between;
\* then this text replaces that one or, being shorter, leaves its end behind
dumped_files(file, dict) ==
    IF file.state = "truncated"
    THEN {file_written(dict)}
    ELSE {file_written(dict), file_garbled}

\* the number of analyses add_analysis_to_history keeps
history_limit == 10

\* add_analysis_to_history keeping the first analyses instead of the last
add_analysis_to_history_keep_first(history, analysis_result, filename, at) ==
    LET appended == Append(history, [filename |-> filename,
                                     timestamp |-> isoformat(at),
                                     analysis |-> analysis_result])
    IN  IF Len(appended) > history_limit
        THEN SubSeq(appended, 1, history_limit)
        ELSE appended

\* add_analysis_to_history: st.session_state.analysis_history afterwards
add_analysis_to_history(history, analysis_result, filename, at) ==
    LET history_item == [filename |-> filename,
                         timestamp |-> isoformat(at),
                         analysis |-> analysis_result]
        appended == Append(history, history_item)
    IN  IF Len(appended) > history_limit
        THEN SubSeq(appended, Len(appended) - history_limit + 1, Len(appended))
        ELSE appended

\* no AuthManager call has completed
NoAuthCall == [method |-> "none"]

\* no script run has happened
NoRun == [checked |-> FALSE]

\* the analysis history is not being exercised
NoHistory ==
    /\ analysis_history = <<>>
    /\ history_added = <<>>

\* the login store and the login state are not being exercised
NoAuth ==
    /\ users_file = file_missing
    /\ sessions_file = file_missing
    /\ session_state = empty_dict
    /\ page_shown = "nothing"
    /\ last_run = NoRun
    /\ last_call = NoAuthCall
    /\ requests = <<>>
    /\ ended = {}

\* neither is, and the clock stands at its first step
NoApp ==
    /\ NoHistory
    /\ NoAuth
    /\ now = 0

-----------------------------------------------------------------------------

\* no call has returned or raised yet
NoReport == [returned |-> FALSE, value |-> [exception |-> "none"]]

NoLocals == [path |-> "none"]

\* calculate_skills_match is not being exercised
NoMatching ==
    /\ match_resume_skills = <<>>
    /\ match_required_skills = <<>>
    /\ match_result = <<0, 1>>
    /\ match_previous = <<0, 1>>

\* the batch page has not run
NoBatch ==
    /\ uploaded_files = <<>>
    /\ batch_results = <<>>
    /\ comparison_data = <<>>
    /\ top_candidates = <<>>
    /\ batch_status = "idle"

\* no function is being called on its own
NoCall ==
    /\ called_with = <<>>
    /\ returned_value = <<>>

-----------------------------------------------------------------------------
(* The analysis as a state machine: a caller holds a resume text and a job *)
(* description and calls calculate_resume_score, again in the same *)
(* interpreter or after a restart of the interpreter *)

Init ==
    /\ \E i \in DOMAIN resume_corpus, j \in DOMAIN job_description_corpus :
          /\ input_pair(i, j)
          /\ input_resume_text = resume_corpus[i]
          /\ input_job_description = job_description_corpus[j]
    /\ hash_seed = 0
    /\ pc = "ready"
    /\ calls = 0
    /\ report = NoReport
    /\ first_report = NoReport
    /\ locals = NoLocals
    /\ NoMatching
    /\ NoBatch
    /\ NoCall
    /\ NoApp

\* one call of calculate_resume_score
Analyze ==
    /\ pc = "ready"
    /\ \E call \in {calculate_resume_score(input_resume_text, input_job_description,
                                             hash_seed)} :
           /\ report' = call.outcome
           /\ locals' = call.locals
           /\ first_report' = IF calls = 0 THEN call.outcome ELSE first_report
    /\ calls' = calls + 1
    /\ pc' = "done"
    /\ UNCHANGED <<input_resume_text, input_job_description, hash_seed, match_vars, batch_vars, call_vars, app_vars>>

\* the caller prepares another call on the same inputs in the same interpreter
Again ==
    /\ pc = "done"
    /\ calls < MaxCalls
    /\ pc' = "ready"
    /\ UNCHANGED <<input_resume_text, input_job_description, hash_seed, calls, report,
                   first_report, locals, match_vars, batch_vars, call_vars, app_vars>>

\* the interpreter is restarted (a Streamlit server restart): the new process
\* draws a new hash seed
Restart ==
    /\ pc = "done"
    /\ calls < MaxCalls
    /\ \E seed \in HashSeeds : hash_seed' = seed
    /\ pc' = "ready"
    /\ UNCHANGED <<input_resume_text, input_job_description, calls, report, first_report,
                   locals, match_vars, batch_vars, call_vars, app_vars>>

Next == Analyze \/ Again \/ Restart

Spec == Init /\ [][Next]_vars

-----------------------------------------------------------------------------
(* Properties of calculate_resume_score                                    *)

\* the last call returned a report
ReportReturned == pc = "done" /\ report.returned

\* the last call returned the report of the try block
NormalReport == ReportReturned /\ locals.path = "normal"

\* the last call returned the report of generate_fallback_score
FallbackReport == ReportReturned /\ locals.path = "fallback"

\* a score in hundredths lies in [0, 100]
score_in_range(x) == 0 <= x /\ x <= 100 * 100

\* the match levels the minimum threshold applies to
floored_levels == {"perfect_match", "good_match", "partial_match"}

\* job_description.strip() is empty
blank(t) == \A i \in 1..Len(t) : Ch(t, i) \in Whitespace

\* C1: in every returned report, of the normal or of the fallback path, with
\* or without a job description, overall_score lies in [0, 100] and every
\* value of detailed_scores (job_fit, skills, experience, education) is None
\* or lies in [0, 100].
C1_ScoresInRange ==
    ReportReturned =>
        /\ score_in_range(report.value.overall_score)
        /\ \A key \in DOMAIN report.value.detailed_scores :
              LET v == report.value.detailed_scores[key]
              IN  IF key = "job_fit" THEN v = None \/ score_in_range(v[1])
                  ELSE score_in_range(v)

\* C2: whenever the match level of the report is perfect, good or partial,
\* overall_score is not below the minimum_threshold of the identified role,
\* and it is exactly the threshold when the capped sum of base score and
\* bonus was below it.
C2_ThresholdFloor ==
    (NormalReport /\ report.value.contextual_analysis.match_level \in floored_levels) =>
        LET threshold == role_config(report.value.job_role_identified).minimum_threshold
        IN  /\ report.value.overall_score >= 100 * threshold
            /\ locals.capped_score < threshold * U =>
                  report.value.overall_score = 100 * threshold

\* a call whose capped sum was below the threshold and was raised to it
C2_FloorApplied ==
    /\ NormalReport
    /\ report.value.contextual_analysis.match_level \in floored_levels
    /\ locals.capped_score < locals.minimum_threshold * U
    /\ locals.minimum_threshold > 0
    /\ report.value.overall_score = 100 * locals.minimum_threshold

\* C3: every call returns a report, no exception propagates; the report of
\* the fallback path has confidence_level 0.3, the education sub-score 50,
\* job_role_identified 'general' and an overall score computed from the
\* keyword skill count and the basic years only.
C3_AlwaysReturnsReport ==
    pc = "done" =>
        /\ report.returned
        /\ locals.path = "fallback" =>
              /\ report.value.confidence_level = <<3, 10>>
              /\ report.value.detailed_scores.education = 50 * 100
              /\ report.value.job_role_identified = "general"
              /\ report.value.overall_score =
                    100 * Min({report.value.total_skills_count * 3
                               + report.value.experience_info.max_years * 5, 100})

\* the field names of ScoreReport
ScoreReportFields ==
    {"overall_score", "base_score", "contextual_bonus", "detailed_scores",
     "contextual_analysis", "job_fit_analysis", "skills_found", "experience_info",
     "education_info", "achievements", "total_skills_count", "job_role_identified",
     "recommendations", "confidence_level", "scoring_rationale"}

\* the field names of its contextual_analysis
ContextualAnalysisFields ==
    {"match_level", "bonus_points", "skill_match_percentage", "matched_categories",
     "reasoning"}

\* C4: every returned report, of the normal or of the fallback path, with or
\* without a job description, has the field names of ScoreReport, and its
\* contextual_analysis has match_level, bonus_points, skill_match_percentage,
\* matched_categories and reasoning.
C4_SameReportShape ==
    ReportReturned =>
        /\ DOMAIN report.value = ScoreReportFields
        /\ ContextualAnalysisFields \subseteq DOMAIN report.value.contextual_analysis
        /\ DOMAIN report.value.detailed_scores = {"job_fit", "skills", "experience", "education"}

C6_SameReportAgain == (pc = "done" /\ calls >= 2) => report = first_report

\* the resume text has no match of a years pattern and no degree keyword
no_years_no_degree(text) ==
    /\ experience_year_strings(text) = <<>>
    /\ extract_education_with_context(text, 0).degrees = <<>>

\* C8: for a resume text with no years-of-experience phrase and no degree
\* mention the call completes the try block, with max_years 0, no degrees and
\* the education sub-score 30.
C8_ZeroProfile ==
    (pc = "done" /\ no_years_no_degree(input_resume_text)) =>
        /\ NormalReport
        /\ report.value.experience_info.max_years = 0
        /\ report.value.education_info.degrees = <<>>
        /\ report.value.detailed_scores.education = 30 * 100

\* C10: on the normal path the score before the threshold logic is
\* min(base_score + contextual_bonus, 100), and overall_score is that value
\* rounded to two decimals unless the minimum threshold applies, in which
\* case it is the threshold of the role.
C10_FinalScoreComposition ==
    NormalReport =>
        LET total == locals.base_score + report.value.contextual_bonus * U
            capped == IF total < 100 * U THEN total ELSE 100 * U
            threshold == role_config(report.value.job_role_identified).minimum_threshold
            floored == /\ report.value.contextual_analysis.match_level \in floored_levels
                       /\ capped < threshold * U
        IN  /\ locals.capped_score = capped
            /\ report.value.overall_score =
                  IF floored THEN 100 * threshold ELSE round_half_even(capped, 100)

\* a call whose base score and bonus exceed 100 together and whose overall
\* score is the cap
C10_CapApplied ==
    /\ NormalReport
    /\ locals.base_score + report.value.contextual_bonus * U > 100 * U
    /\ report.value.contextual_bonus > 0
    /\ report.value.overall_score = 100 * 100

\* a role's required categories of which k are among the resume's skills
\* give the level good_match
good_match_possible(role) == \E k \in 0..Len(role.required_skills) : match_level_of(<<100 * k, Len(role.required_skills)>>) = "good_match"

\* a line of the recommendations is the role-specific-fit verdict
has_role_specific_fit(recommendations) == \E i \in DOMAIN recommendations : LitAt(recommendations[i], 1, "**ROLE-SPECIFIC FIT**")

\* C24: every role of the table has one or two required categories, so no
\* number of them in a resume gives good_match; a report never has the
\* level good_match, a perfect_match has an overall score of 80 or more, and
\* no report has the role-specific-fit verdict.
C24_NoGoodMatch ==
    /\ \A i \in DOMAIN industry_role_weights :
          /\ Len(industry_role_weights[i].required_skills) \in {1, 2}
          /\ ~good_match_possible(industry_role_weights[i])
    /\ ReportReturned => ~has_role_specific_fit(report.value.recommendations)
    /\ NormalReport =>
          /\ report.value.contextual_analysis.match_level # "good_match"
          /\ report.value.contextual_analysis.match_level = "perfect_match"
                => report.value.overall_score >= 80 * 100

\* a perfect match with a base score under 20: the bonus of the match alone
\* brings the overall score to 80 or more
C24_PerfectMatchLowBase == NormalReport /\ report.value.contextual_analysis.match_level = "perfect_match" /\ locals.base_score < 20 * U /\ report.value.overall_score >= 80 * 100

-----------------------------------------------------------------------------
(* calculate_skills_match on growing resume skills                         *)

\* the job descriptions whose required skills the resume skills are matched
\* with; the last one names no skill
match_job_descriptions ==
    << job_description_corpus[3],
       job_description_corpus[4],
       job_description_corpus[5],
       "office assistant wanted" >>

\* the skills of a resume are at most this many
MaxResumeSkills == 3

\* the entries <<category, subcategory, skill>> of the taxonomy, by position
skill_entries ==
    UNION {UNION {{<<i, j, k>> : k \in DOMAIN skills_db[i].subcategories[j].skills} :
                  j \in DOMAIN skills_db[i].subcategories} :
           i \in DOMAIN skills_db}

\* found_skills of extract_skills_with_context for a resume in which exactly
\* the entries E were found: categories and subcategories without a skill
\* are left out
skills_of_entries(E) ==
    LET sub(i, j) ==
            LET all == skills_db[i].subcategories[j].skills
            IN  [subcategory |-> skills_db[i].subcategories[j].subcategory,
                 skills |-> SelectSeqOf(all, {k \in DOMAIN all : <<i, j, k>> \in E})]
        cat(i) ==
            LET subs == [j \in DOMAIN skills_db[i].subcategories |-> sub(i, j)]
            IN  [category |-> skills_db[i].category,
                 subcategories |-> SelectSeqOf(subs, {j \in DOMAIN subs : subs[j].skills # <<>>})]
        cats == [i \in DOMAIN skills_db |-> cat(i)]
    IN  SelectSeqOf(cats, {i \in DOMAIN cats : cats[i].subcategories # <<>>})

\* the entries found in a resume's skills
entries_of_skills(skills) ==
    {e \in skill_entries :
        \E k \in DOMAIN subcategory_get(category_get(skills, skills_db[e[1]].category),
                                         skills_db[e[1]].subcategories[e[2]].subcategory) :
            subcategory_get(category_get(skills, skills_db[e[1]].category),
                            skills_db[e[1]].subcategories[e[2]].subcategory)[k]
                = skills_db[e[1]].subcategories[e[2]].skills[e[3]]}

InitMatch ==
    /\ \E j \in DOMAIN match_job_descriptions :
          /\ input_job_description = match_job_descriptions[j]
          /\ match_required_skills =
                extract_comprehensive_job_requirements(match_job_descriptions[j])
                    .value.required_skills
    /\ match_resume_skills = <<>>
    /\ match_result = calculate_skills_match(match_resume_skills, match_required_skills)
    /\ match_previous = match_result
    /\ input_resume_text = ""
    /\ hash_seed = 0
    /\ pc = "ready"
    /\ calls = 0
    /\ report = NoReport
    /\ first_report = NoReport
    /\ locals = NoLocals
    /\ NoBatch
    /\ NoCall
    /\ NoApp

\* one more skill is found in the resume and the match is computed again
AddSkill(e) ==
    /\ e \notin entries_of_skills(match_resume_skills)
    /\ count_total_skills(match_resume_skills) < MaxResumeSkills
    /\ match_resume_skills' = skills_of_entries(entries_of_skills(match_resume_skills) \cup {e})
    /\ match_result' = calculate_skills_match(match_resume_skills', match_required_skills)
    /\ match_previous' = match_result
    /\ UNCHANGED <<match_required_skills, analysis_vars, batch_vars, call_vars, app_vars>>

NextMatch == \E e \in skill_entries : AddSkill(e)

SpecMatch == InitMatch /\ [][NextMatch]_vars

\* C7: with the job requirements fixed, the skills match of a resume's
\* skills with one more skill is not below the match without it.
C7_SkillsMatchMonotone == frac_leq(match_previous, match_result)

\* a required skill was added to the resume's skills and the match grew
C7_MatchGrew ==
    /\ match_resume_skills # <<>>
    /\ match_required_skills # <<>>
    /\ frac_less(match_previous, match_result)

-----------------------------------------------------------------------------
(* The batch page (app.py) and the helpers it calls                        *)

\* FileValidator.ALLOWED_EXTENSIONS
ALLOWED_EXTENSIONS == <<"pdf", "docx", "txt">>

\* FileValidator.MAX_FILE_SIZE
MAX_FILE_SIZE == 10 * 1024 * 1024

\* config['max_files_batch']
max_files_batch == 5

\* the n of df.nlargest(n, 'Overall Score')
top_candidates_shown == 3

\* uploaded_file.name.split('.')[-1].lower()
file_extension(name) ==
    LET dots == Occurrences(name, ".")
    IN  lower(IF dots = {} THEN name ELSE SubSeq(name, Max(dots) + 1, Len(name)))

\* FileValidator.validate_file: is_valid
validate_file(uploaded_file) ==
    IF uploaded_file.size > MAX_FILE_SIZE THEN FALSE
    ELSE file_extension(uploaded_file.name) \in Range(ALLOWED_EXTENSIONS)

\* TextExtractor.extract_text: None, or the text of the file; content is the
\* text the reader of the file's type yields ("" if it cannot read the file)
extract_text(uploaded_file) ==
    IF uploaded_file.type = "application/pdf" THEN <<strip(uploaded_file.content)>>
    ELSE IF uploaded_file.type
            = "application/vnd.openxmlformats-officedocument.wordprocessingml.document"
    THEN <<strip(uploaded_file.content)>>
    ELSE IF uploaded_file.type = "text/plain" THEN <<uploaded_file.content>>
    ELSE None

\* process_file_for_batch: Ok(None), Ok of the one result, or the exception
\* of calculate_resume_score
\* the result of a file from the outcome of its analysis
batch_result(uploaded_file, call) ==
    IF call.outcome.returned
    THEN Ok(<<[name |-> uploaded_file.name, analysis |-> call.outcome.value]>>)
    ELSE Raise(call.outcome.value.exception)

\* the analysis of the text extract_text has returned (None, or a text)
analyze_extracted_text(uploaded_file, text, job_description, seed) ==
    IF text = None \/ text = <<"">> THEN Ok(None)
    ELSE batch_result(uploaded_file, calculate_resume_score(text[1], job_description, seed))

\* process_file_for_batch: Ok(None), Ok of the one result, or the exception
\* of calculate_resume_score
process_file_for_batch(uploaded_file, job_description, seed) ==
    analyze_extracted_text(uploaded_file, extract_text(uploaded_file), job_description, seed)

\* df.head(n): the first n rows, in the order of the table
head(n, rows) ==
    [i \in 1..Min({n, Len(rows)}) |-> [index |-> i - 1, row |-> rows[i]]]

\* df.nlargest(n, 'Overall Score'): the n rows with the largest scores in
\* descending order, rows with equal scores in the order of the table
nlargest(n, rows) ==
    LET keys == [i \in DOMAIN rows |-> rows[i].Overall_Score]
        order == order_desc(keys, DOMAIN rows)
    IN  [i \in 1..Min({n, Len(rows)}) |-> [index |-> order[i] - 1, row |-> rows[order[i]]]]

\* display_batch_results: the comparison table and the top candidates
display_batch_results(batch) ==
    LET comparison ==
            [i \in DOMAIN batch |->
                [Filename |-> batch[i].name,
                 Overall_Score |-> batch[i].analysis.overall_score,
                 Skills_Count |-> batch[i].analysis.total_skills_count,
                 Experience_Score |-> batch[i].analysis.detailed_scores.experience,
                 Education_Score |-> batch[i].analysis.detailed_scores.education]]
    IN  [comparison_data |-> comparison,
         top_candidates |-> nlargest(top_candidates_shown, comparison)]

\* what a run of the batch page shows nothing of
NothingShown(status) ==
    [status |-> status, results |-> <<>>, comparison_data |-> <<>>, top_candidates |-> <<>>]

\* handle_batch_processing on the files of the uploader
\* the page once the comparison table and the ranking are computed
displayed(batch, shown) ==
    [status |-> "displayed",
     results |-> batch,
     comparison_data |-> shown.comparison_data,
     top_candidates |-> shown.top_candidates]

\* if batch_results: display_batch_results(batch_results)
display_if_any(batch) ==
    IF batch = <<>> THEN NothingShown("no_results")
    ELSE displayed(batch, display_batch_results(batch))

\* the page from the outcomes of the files, in upload order
show_processed(processed) ==
    IF \E i \in DOMAIN processed : processed[i].raised THEN NothingShown("raised")
    ELSE display_if_any(Concat([i \in DOMAIN processed |-> processed[i].value]))

\* handle_batch_processing on the files of the uploader
handle_batch_processing(files, job_description, seed) ==
    IF files = <<>> THEN NothingShown("idle")
    ELSE IF Len(files) > max_files_batch THEN NothingShown("too_many_files")
    ELSE show_processed([i \in DOMAIN files |->
                            IF validate_file(files[i])
                            THEN process_file_for_batch(files[i], job_description, seed)
                            ELSE Ok(None)])

\* the files a recruiter uploads: two readable resumes, a document without
\* text, and a file of a type that is not accepted
batch_files ==
    << [name |-> "ana.pdf", size |-> 2048, type |-> "application/pdf",
        content |-> resume_corpus[2]],
       [name |-> "ben.txt", size |-> 2048, type |-> "text/plain",
        content |-> "python, sql"],
       [name |-> "cy.docx", size |-> 2048,
        type |-> "application/vnd.openxmlformats-officedocument.wordprocessingml.document",
        content |-> " \n "],
       [name |-> "dee.doc", size |-> 2048, type |-> "application/msword",
        content |-> resume_corpus[2]] >>

\* the files in the uploader are at most this many
MaxUpload == 4

InitBatch ==
    /\ input_job_description = job_description_corpus[4]
    /\ NoBatch
    /\ NoCall
    /\ NoApp
    /\ input_resume_text = ""
    /\ hash_seed = 0
    /\ pc = "ready"
    /\ calls = 0
    /\ report = NoReport
    /\ first_report = NoReport
    /\ locals = NoLocals
    /\ NoMatching

\* the recruiter adds a file to the uploader; the page runs again on all the
\* files of the uploader
Upload(file) ==
    /\ Len(uploaded_files) < MaxUpload
    /\ uploaded_files' = Append(uploaded_files, file)
    /\ \E shown \in {handle_batch_processing(Append(uploaded_files, file),
                                                input_job_description, hash_seed)} :
           /\ batch_status' = shown.status
           /\ batch_results' = shown.results
           /\ comparison_data' = shown.comparison_data
           /\ top_candidates' = shown.top_candidates
    /\ UNCHANGED <<analysis_vars, match_vars, call_vars, app_vars>>

NextBatch == \E i \in DOMAIN batch_files : Upload(batch_files[i])

SpecBatch == InitBatch /\ [][NextBatch]_vars

\* row i of the comparison table ranks before row j
ranks_before(i, j) ==
    \/ comparison_data[i].Overall_Score > comparison_data[j].Overall_Score
    \/ /\ comparison_data[i].Overall_Score = comparison_data[j].Overall_Score
       /\ i < j

\* the ranking of the batch page is in descending order of overall_score,
\* rows of equal score in upload order
ranking_ordered ==
    \A a, b \in DOMAIN top_candidates :
        a < b => ranks_before(top_candidates[a].index + 1, top_candidates[b].index + 1)

\* C9 as stated: the ranking lists all the N analysed candidates of the
\* batch, in descending order of overall_score, candidates of equal score in
\* upload order.
C9_RanksAllCandidates ==
    batch_status = "displayed" =>
        /\ Len(top_candidates) = Len(batch_results)
        /\ ranking_ordered

\* C9 as the code has it: the comparison table lists the N analysed
\* candidates in upload order, and the ranking lists the min(3, N) candidates
\* that rank before all others, in descending order of overall_score,
\* candidates of equal score in upload order.
C9_RanksTopThree ==
    batch_status = "displayed" =>
        /\ Len(comparison_data) = Len(batch_results)
        /\ \A i \in DOMAIN comparison_data :
              /\ comparison_data[i].Filename = batch_results[i].name
              /\ comparison_data[i].Overall_Score = batch_results[i].analysis.overall_score
        /\ Len(top_candidates) = Min({3, Len(comparison_data)})
        /\ \A a \in DOMAIN top_candidates :
              /\ top_candidates[a].index + 1 \in DOMAIN comparison_data
              /\ top_candidates[a].row = comparison_data[top_candidates[a].index + 1]
        /\ ranking_ordered
        /\ \A a \in DOMAIN top_candidates :
              \A r \in DOMAIN comparison_data \ {top_candidates[b].index + 1 :
                                                   b \in DOMAIN top_candidates} :
                  ranks_before(top_candidates[a].index + 1, r)

\* a batch of more than three analysed candidates whose best candidate was
\* not uploaded first and whose ranking holds two candidates of equal score
C9_FourCandidates ==
    /\ batch_status = "displayed"
    /\ Len(comparison_data) > 3
    /\ Len(top_candidates) = 3
    /\ top_candidates[1].index > 0
    /\ top_candidates[2].row.Overall_Score = top_candidates[3].row.Overall_Score
    /\ top_candidates[2].index < top_candidates[3].index

-----------------------------------------------------------------------------
(* calculate_job_fit_score on its own: the weighted sum of the four fits   *)

\* calculate_resume_score, calculate_skills_match and the batch page are idle
OnlyCall ==
    /\ input_resume_text = ""
    /\ input_job_description = ""
    /\ hash_seed = 0
    /\ pc = "ready"
    /\ calls = 0
    /\ report = NoReport
    /\ first_report = NoReport
    /\ locals = NoLocals
    /\ NoMatching
    /\ NoBatch

\* the values each of the four fits takes: the ends and the middle of [0, 100]
fit_values == {0, 50, 100}

\* the four fits of a resume and the role of the job, every role of
\* industry_role_weights
InitFit ==
    /\ \E i \in DOMAIN industry_role_weights, s, e, d, k \in fit_values :
          called_with = [job_role |-> industry_role_weights[i].role,
                         skills_match |-> <<s, 1>>,
                         experience_fit |-> e,
                         education_fit |-> d,
                         keyword_match |-> <<k, 1>>]
    /\ returned_value = <<>>
    /\ OnlyCall
    /\ NoApp

\* the weighted overall fit of calculate_job_fit_score and its rounded parts
JobFit ==
    /\ returned_value = <<>>
    /\ returned_value' =
          <<weighted_job_fit(called_with.skills_match, called_with.experience_fit,
                             called_with.education_fit, called_with.keyword_match,
                             role_config(called_with.job_role).weights)>>
    /\ UNCHANGED <<called_with, analysis_vars, match_vars, batch_vars, app_vars>>

SpecFit == InitFit /\ [][JobFit]_vars

\* C11: for every role of the role weight table and every combination of the
\* four fits in [0, 100], the overall fit of calculate_job_fit_score is in
\* [0, 100].
C11_FitInRange ==
    returned_value # <<>> =>
        /\ 0 <= returned_value[1].overall_fit
        /\ returned_value[1].overall_fit <= 100 * 100

\* the keys of a weight map
weight_keys(weights) == {weights[i][1] : i \in DOMAIN weights}

\* C12: the weight map of every role of the role weight table has the keys
\* skills, experience and education and one role-specific key, and its
\* weights sum to 1.0 (here: of the role whose fit is computed).
C12_WeightMaps ==
    returned_value # <<>> =>
        LET weights == role_config(called_with.job_role).weights
        IN  /\ {"skills", "experience", "education"} \subseteq weight_keys(weights)
            /\ Cardinality(weight_keys(weights)) = 4
            /\ Sum([i \in DOMAIN weights |-> weights[i][2]]) = 100

-----------------------------------------------------------------------------
(* extract_skills_with_context on its own                                  *)

\* the skills a text mentions, and what the text says around the mention
skill_mentions == <<"python", "CPA", "c", "go", "r", "ca", "tableau", "kitchen safety">>

mention_contexts ==
    << <<"", "">>,
       <<"skills: ", "">>,
       <<"", " programming">>,
       <<"i will ", " to the store">>,
       <<"", " education">>,
       <<"chartered accountant, ", " final">>,
       <<"sql, ", ", grilling">>,
       <<"medical ", " for accounting">> >>

InitSkills ==
    /\ \E m \in DOMAIN skill_mentions, c \in DOMAIN mention_contexts :
          called_with = [text |-> mention_contexts[c][1] \o skill_mentions[m] \o mention_contexts[c][2]]
    /\ returned_value = <<>>
    /\ OnlyCall
    /\ NoApp

ExtractSkills ==
    /\ returned_value = <<>>
    /\ returned_value' = <<extract_skills_with_context(called_with.text)>>
    /\ UNCHANGED <<called_with, analysis_vars, match_vars, batch_vars, app_vars>>

SpecSkills == InitSkills /\ [][ExtractSkills]_vars

\* the skills of the taxonomy's category i, subcategory j
taxonomy_skills(i, j) == Range(skills_db[i].subcategories[j].skills)

\* C13: no skill string of the taxonomy that the extraction went through
\* appears under two different subcategories of the same category.
C13_OneSubcategoryPerSkill == returned_value # <<>> => \A i \in DOMAIN skills_db : \A j1, j2 \in DOMAIN skills_db[i].subcategories : j1 # j2 => taxonomy_skills(i, j1) \cap taxonomy_skills(i, j2) = {}

\* the categories of the taxonomy that list the skill
categories_listing(skill) == {skills_db[i].category : i \in {a \in DOMAIN skills_db : \E j \in DOMAIN skills_db[a].subcategories : skill \in taxonomy_skills(a, j)}}

\* the categories under which an extracted-skills value reports the skill
categories_reporting(skills, skill) == {skills[i].category : i \in {a \in DOMAIN skills : skill \in Range(category_skill_list(skills[a]))}}

\* every skill string of the taxonomy
taxonomy_skill_set == {skills_db[e[1]].subcategories[e[2]].skills[e[3]] : e \in skill_entries}

\* C14: a skill that the extraction reports is reported under each of the
\* taxonomy's categories that list it.
C14_ReportedUnderEachCategory == returned_value # <<>> => \A skill \in taxonomy_skill_set : categories_reporting(returned_value[1], skill) # {} => categories_reporting(returned_value[1], skill) = categories_listing(skill)

\* the short tokens that have a pattern of their own in is_exact_skill_match
ambiguous_tokens == {problematic_skills[i].skill : i \in DOMAIN problematic_skills}

\* the positive_context and the negative_context phrases that the context
\* rules give for a token
positive_phrases(token) == UNION {Range(context_rules[i].positive_context) : i \in {r \in DOMAIN context_rules : context_rules[r].skill = token}}

negative_phrases(token) == UNION {Range(context_rules[i].negative_context) : i \in {r \in DOMAIN context_rules : context_rules[r].skill = token}}

\* the decision on a matched token: a positive phrase accepts, else a
\* negative phrase rejects, else the window around a mention decides
context_decision(token, text) ==
    IF \E phrase \in positive_phrases(token) : Contains(text, phrase) THEN TRUE
    ELSE IF \E phrase \in negative_phrases(token) : Contains(text, phrase) THEN FALSE
    ELSE is_in_skill_context(token, text)

\* C15: an ambiguous token of the taxonomy that matched its pattern in the
\* text is reported exactly when its context decides for it: a positive
\* phrase accepts, a negative phrase without a positive one rejects, and
\* without either the window around a mention decides.
C15_ContextDecides == returned_value # <<>> => \A token \in ambiguous_tokens \cap taxonomy_skill_set : is_exact_skill_match(token, lower(called_with.text)) => (categories_reporting(returned_value[1], token) # {} <=> context_decision(token, lower(called_with.text)))

-----------------------------------------------------------------------------
(* assess_impact_level on its own                                          *)

\* The statements are matches of the achievement patterns: a verb, then what
\* was achieved, with or without percentages, and a number or an amount.
percentage_phrases == <<"", " by 5%", " by 19%", " by 20%", " by 49%", " by 50%", " by 75%", " by 5% and 60%">>

amount_phrases == <<" for 3 clients", " to $500">>

InitImpact ==
    /\ \E v \in DOMAIN achievement_verbs, p \in DOMAIN percentage_phrases, m \in DOMAIN amount_phrases :
          called_with = [achievement |-> achievement_verbs[v] \o " sales" \o percentage_phrases[p] \o amount_phrases[m]]
    /\ returned_value = <<>>
    /\ OnlyCall
    /\ NoApp

AssessImpact ==
    /\ returned_value = <<>>
    /\ returned_value' = <<assess_impact_level(called_with.achievement)>>
    /\ UNCHANGED <<called_with, analysis_vars, match_vars, batch_vars, app_vars>>

SpecImpact == InitImpact /\ [][AssessImpact]_vars

\* the statement has a dollar sign followed by a digit
has_dollar_amount(achievement) == \E p \in Occurrences(achievement, "$") : IsDigitAt(achievement, p + 1)

\* the largest of the statement's percentages, -1 without one
largest_percentage(achievement) == Max({-1} \cup Range(ints(findall_percentages(achievement))))

\* C16: the impact level is high with a percentage of 50 or more or with a
\* dollar amount (a lower percentage beside it or not), medium with a
\* percentage from 20 to 49 and no dollar amount, low with a percentage below
\* 20 and no dollar amount, and medium with neither.
C16_ImpactLevel == returned_value # <<>> => returned_value[1] = Ok(IF largest_percentage(called_with.achievement) >= 50 \/ has_dollar_amount(called_with.achievement) THEN "high" ELSE IF largest_percentage(called_with.achievement) >= 20 THEN "medium" ELSE IF largest_percentage(called_with.achievement) >= 0 THEN "low" ELSE "medium")

-----------------------------------------------------------------------------
(* identify_job_role_with_confidence on its own                            *)

\* what a job description says; two of them make a description
job_phrases == <<"", "chef", "nurse", "coding", "frontend", "analytics", "teacher", "sales rep", "office work", "Head Chef, kitchen">>

InitRole ==
    /\ \E a, b \in DOMAIN job_phrases :
          called_with = [job_description |-> IF job_phrases[a] = "" THEN job_phrases[b] ELSE job_phrases[a] \o ", " \o job_phrases[b]]
    /\ returned_value = <<>>
    /\ OnlyCall
    /\ NoApp

IdentifyRole ==
    /\ returned_value = <<>>
    /\ returned_value' = <<identify_job_role_with_confidence(called_with.job_description)>>
    /\ UNCHANGED <<called_with, analysis_vars, match_vars, batch_vars, app_vars>>

SpecRole == InitRole /\ [][IdentifyRole]_vars

\* how many keywords of the table's role i the lower-cased description has
keywords_found(i, job_description) == count_contained(job_role_keywords[i].keywords, lower(job_description))

\* role i has a keyword in the description, and no role has a larger share
\* of its keywords in it
has_highest_share(i, job_description) == /\ keywords_found(i, job_description) > 0 /\ \A j \in DOMAIN job_role_keywords : keywords_found(j, job_description) * Len(job_role_keywords[i].keywords) <= keywords_found(i, job_description) * Len(job_role_keywords[j].keywords)

\* the result names role i with its share of keywords as the confidence
names_role(result, i, job_description) == /\ result[1] = job_role_keywords[i].role /\ result[2][1] * Len(job_role_keywords[i].keywords) = keywords_found(i, job_description) * result[2][2] /\ 0 <= result[2][1] /\ result[2][1] <= result[2][2]

\* C17: the identified role is the first role of the table among those with
\* the highest nonzero share of their keywords in the lower-cased job
\* description, the confidence is that share, between 0 and 1, and without
\* any keyword in the description the result is general with confidence 0.
C17_FirstOfHighestConfidence == returned_value # <<>> => IF \A i \in DOMAIN job_role_keywords : keywords_found(i, called_with.job_description) = 0 THEN returned_value[1][1] = "general" /\ returned_value[1][2][1] = 0 ELSE \E i \in DOMAIN job_role_keywords : /\ has_highest_share(i, called_with.job_description) /\ \A j \in 1..(i - 1) : ~has_highest_share(j, called_with.job_description) /\ names_role(returned_value[1], i, called_with.job_description)

\* a role was identified although a later role of the table has the same
\* share of its keywords in the description
C17_TieResolved == returned_value # <<>> /\ \E i, j \in DOMAIN job_role_keywords : i < j /\ has_highest_share(i, called_with.job_description) /\ has_highest_share(j, called_with.job_description) /\ returned_value[1][1] = job_role_keywords[i].role

-----------------------------------------------------------------------------
(* calculate_contextual_role_match on the analysis of a resume             *)

\* resumes with and without skills of the roles' required categories, and
\* with passion indicators in plain text, in skills and in achievements
bonus_resumes ==
    << "",
       "python",
       "python, tableau",
       "patient care, leadership",
       "grilling, passion for cooking, love of food, culinary arts",
       "grilling. increased love of food sales by 30% with passion for cooking",
       "kitchen safety. improved culinary arts, love of food, passion for cooking by 9%",
       "grilling. achieved culinary arts, love of food, food enthusiast, cooking hobby 5 times" >>

\* the roles that the role identification can give
identified_roles == {job_role_keywords[i].role : i \in DOMAIN job_role_keywords} \cup {"general"}

InitBonus ==
    /\ \E r \in DOMAIN bonus_resumes, job_role \in identified_roles :
          called_with = [resume_text |-> bonus_resumes[r], job_role |-> job_role]
    /\ returned_value = <<>>
    /\ OnlyCall
    /\ NoApp

\* the skills and the achievements of calculate_resume_score's resume_analysis,
\* and the contextual match of the analysis with the job's role
ContextualMatch ==
    /\ returned_value = <<>>
    /\ returned_value' = <<calculate_contextual_role_match(
                              [skills |-> extract_skills_with_context(called_with.resume_text),
                               achievements |-> extract_quantified_achievements(called_with.resume_text).value],
                              [job_role |-> called_with.job_role])>>
    /\ UNCHANGED <<called_with, analysis_vars, match_vars, batch_vars, app_vars>>

SpecBonus == InitBonus /\ [][ContextualMatch]_vars

\* the required skill categories of a role, and those of them that the
\* resume's extracted skills have
required_categories(job_role) == Range(role_config(job_role).required_skills)

present_categories(job_role, resume_text) == {c \in required_categories(job_role) : has_category(extract_skills_with_context(resume_text), c)}

\* the level and the match bonus for `present` of `required` categories
level_for(present, required) ==
    IF required > 0 /\ 100 * present >= 80 * required THEN <<"perfect_match", 80>>
    ELSE IF required > 0 /\ 100 * present >= 60 * required THEN <<"good_match", 60>>
    ELSE IF required > 0 /\ 100 * present >= 30 * required THEN <<"partial_match", 40>>
    ELSE <<"no_match", 0>>

\* the match-level part of the bonus points of a result
match_bonus_of(result) == result.bonus_points - result.passion_bonus - result.demand_bonus

\* C18: the match level and the match bonus follow the share p of the
\* role's required categories that the resume skills have: perfect_match and
\* 80 from 80%, good_match and 60 from 60%, partial_match and 40 from 30%,
\* no_match and 0 below 30% or without required categories.
C18_MatchLevels == returned_value # <<>> => <<returned_value[1].match_level, match_bonus_of(returned_value[1])>> = level_for(Cardinality(present_categories(called_with.job_role, called_with.resume_text)), Cardinality(required_categories(called_with.job_role)))

\* a resume with one of the two required categories of the role: a partial match
C18_HalfOfRequired == returned_value # <<>> /\ Cardinality(required_categories(called_with.job_role)) = 2 /\ Cardinality(present_categories(called_with.job_role, called_with.resume_text)) = 1 /\ returned_value[1].match_level = "partial_match"

\* the passion indicators of the role's passion category, none for a role
\* without one
role_indicators(job_role) == UNION {Range(passion_indicators[i].indicators) : i \in {p \in DOMAIN passion_indicators : \E m \in DOMAIN passion_mapping : passion_mapping[m] = <<job_role, passion_indicators[p].category>>}}

\* C19: the passion bonus is 5 for each indicator of the role's passion
\* category that the resume text contains, at most 15, and 0 for a role
\* without a passion category.
C19_PassionBonus == returned_value # <<>> => returned_value[1].passion_bonus = Min({15, 5 * Cardinality({k \in role_indicators(called_with.job_role) : Contains(lower(called_with.resume_text), k)})})

\* C20: the bonus points are the match bonus of the level plus the passion
\* bonus plus the demand bonus, the demand bonus is 20 for a role of the
\* high-demand list and 0 for any other, and the points are from 0 to 115.
C20_BonusPoints == returned_value # <<>> => /\ returned_value[1].demand_bonus = (IF called_with.job_role \in Range(high_demand_roles) THEN 20 ELSE 0) /\ returned_value[1].bonus_points = role_match_bonus[returned_value[1].match_level] + returned_value[1].passion_bonus + returned_value[1].demand_bonus /\ returned_value[1].bonus_points \in 0..115

\* the three parts at their largest: 80 + 15 + 20
C20_LargestBonus == returned_value # <<>> /\ returned_value[1].bonus_points = 115 /\ returned_value[1].passion_bonus = 15 /\ returned_value[1].demand_bonus = 20

-----------------------------------------------------------------------------
(* calculate_experience_fit on its own                                     *)

\* max_years of the resume and min_years of the job are at most this many
MaxYears == 12

InitExperienceFit ==
    /\ \E candidate_years, required_years \in 0..MaxYears :
          called_with = [candidate_years |-> candidate_years, required_years |-> required_years]
    /\ returned_value = <<>>
    /\ OnlyCall
    /\ NoApp

ExperienceFit ==
    /\ returned_value = <<>>
    /\ returned_value' = <<calculate_experience_fit(called_with.candidate_years, called_with.required_years)>>
    /\ UNCHANGED <<called_with, analysis_vars, match_vars, batch_vars, app_vars>>

SpecExperienceFit == InitExperienceFit /\ [][ExperienceFit]_vars

\* C21: the experience fit is 75 without a required minimum, 75 plus 5 for
\* each year over the minimum and at most 100 when the candidate has the
\* required years, 75 minus 10 for each year under it and at least 0
\* otherwise; it is 75 or more exactly when the minimum is met or is 0.
C21_ExperienceFit ==
    returned_value # <<>> =>
        LET candidate_years == called_with.candidate_years
            required_years == called_with.required_years
            fit == returned_value[1]
        IN  /\ (required_years = 0) => (fit = 75)
            /\ (required_years > 0 /\ candidate_years >= required_years)
                  => (fit = Min({100, 75 + 5 * (candidate_years - required_years)}))
            /\ (candidate_years < required_years)
                  => (fit = Max({0, 75 - 10 * (required_years - candidate_years)}))
            /\ (fit >= 75) <=> (required_years = 0 \/ candidate_years >= required_years)

\* a candidate more than five years over the minimum: the fit stays at 100
C21_BonusLimited == returned_value # <<>> /\ called_with.required_years > 0 /\ called_with.candidate_years > called_with.required_years + 5 /\ returned_value[1] = 100

-----------------------------------------------------------------------------
(* generate_enhanced_recommendations on its own                            *)

\* final scores at and just under the scores between the verdicts, in 1/U
recommend_scores == {0, 4499 * 100, 45 * U, 4999 * 100, 50 * U, 6499 * 100, 65 * U, 7499 * 100, 75 * U, 8499 * 100, 85 * U, 100 * U}

\* resume skills: none, one culinary skill, six skills without a culinary
\* one, and five culinary skills of the embedded taxonomy
recommend_skills ==
    << <<>>,
       skills_of_entries({e \in skill_entries : skills_db[e[1]].subcategories[e[2]].skills[e[3]] = "grilling"}),
       skills_of_entries({e \in skill_entries : skills_db[e[1]].category \in {"programming_languages", "data_science"}}),
       <<[category |-> "culinary_skills", subcategories |->
            <<[subcategory |-> "cooking_techniques",
               skills |-> <<"grilling", "roasting", "braising", "frying", "baking">>]>>]>> >>

\* no achievement, and two achievements
recommend_achievements ==
    << <<>>,
       <<[statement |-> "increased sales by 30%", type |-> "financial", impact_level |-> "medium"],
         [statement |-> "reduced costs by 5%", type |-> "general", impact_level |-> "low"]>> >>

\* a job's requirements with the role, <<>> without a job description
recommend_jobs == {<<>>, [job_role |-> "chef"], [job_role |-> "data_analyst"]}

\* the contextual match without a job description, and contextual matches
\* with one
recommend_matches(job_requirements) ==
    IF job_requirements = <<>>
    THEN {calculate_contextual_role_match([skills |-> <<>>, achievements |-> <<>>], <<>>)}
    ELSE {[match_level |-> level,
           bonus_points |-> role_match_bonus[level] + passion + calculate_demand_bonus(job_requirements.job_role),
           passion_bonus |-> passion,
           demand_bonus |-> calculate_demand_bonus(job_requirements.job_role)] :
             level \in DOMAIN role_match_bonus, passion \in {0, 5}}

InitRecommend ==
    /\ \E s \in DOMAIN recommend_skills, max_years \in {0, 3}, a \in DOMAIN recommend_achievements, job_requirements \in recommend_jobs, final_score \in recommend_scores :
          \E contextual_match \in recommend_matches(job_requirements) :
              called_with = [resume_analysis |-> [skills |-> recommend_skills[s],
                                                  experience |-> [max_years |-> max_years],
                                                  achievements |-> recommend_achievements[a]],
                             job_requirements |-> job_requirements,
                             final_score |-> final_score,
                             contextual_match |-> contextual_match]
    /\ returned_value = <<>>
    /\ OnlyCall
    /\ NoApp

Recommend ==
    /\ returned_value = <<>>
    /\ returned_value' = <<generate_enhanced_recommendations(called_with.resume_analysis, called_with.job_requirements,
                                                              called_with.final_score, called_with.contextual_match)>>
    /\ UNCHANGED <<called_with, analysis_vars, match_vars, batch_vars, app_vars>>

SpecRecommend == InitRecommend /\ [][Recommend]_vars

\* how the lines of each group start: 1 the verdict, 2 the bonus
\* explanation, 3 the role-specific commentary, 4 the skills warning, 5 the
\* experience warning, 6 the achievements note
line_groups ==
    << <<"**HIGHLY RECOMMENDED**", "**RECOMMENDED**", "**CONSIDER**", "**ROLE-SPECIFIC FIT**", "**REVIEW CAREFULLY**", "**NOT RECOMMENDED**">>,
       <<"**BONUS POINTS**">>,
       <<"**CULINARY ">>,
       <<"**Skills Development**">>,
       <<"**Entry Level**">>,
       <<"**Results-Oriented**">> >>

\* the group of a line, 0 for a line of no group
group_of(line) ==
    LET groups == {g \in DOMAIN line_groups : \E k \in DOMAIN line_groups[g] : LitAt(line, 1, line_groups[g][k])}
    IN  IF groups = {} THEN 0 ELSE Min(groups)

\* the first line is a verdict and every later line is of a later group
\* than the lines before it
in_fixed_order(lines) ==
    /\ Len(lines) >= 1
    /\ group_of(lines[1]) = 1
    /\ \A i \in DOMAIN lines : group_of(lines[i]) # 0
    /\ \A i, j \in DOMAIN lines : i < j => group_of(lines[i]) < group_of(lines[j])

\* C22: the recommendations start with exactly one verdict line, and the
\* lines after it are in the order bonus explanation, role-specific
\* commentary, skills warning, experience warning, achievements note.
C22_FixedOrder == returned_value # <<>> => in_fixed_order(returned_value[1])

\* recommendations with a line of every group
C22_AllSixLines == returned_value # <<>> /\ {group_of(returned_value[1][i]) : i \in DOMAIN returned_value[1]} = 1..6

\* the verdict that the score alone gives
score_tier(final_score) ==
    IF final_score >= 85 * U THEN "**HIGHLY RECOMMENDED**"
    ELSE IF final_score >= 75 * U THEN "**RECOMMENDED**"
    ELSE IF final_score >= 65 * U THEN "**CONSIDER**"
    ELSE IF final_score >= 50 * U THEN "**REVIEW CAREFULLY**"
    ELSE "**NOT RECOMMENDED**"

\* the match level says that the candidate fits the role
role_fit(contextual_match) == contextual_match.match_level \in {"perfect_match", "good_match"}

\* C23: the verdict follows the score (85, 75, 65, 50), except that a
\* candidate who fits the role and has a score from 45 to under 65 gets the
\* role-specific-fit verdict.
C23_Verdict ==
    returned_value # <<>> =>
        LET verdict == returned_value[1][1]
            final_score == called_with.final_score
        IN  IF role_fit(called_with.contextual_match) /\ 45 * U <= final_score /\ final_score < 65 * U
            THEN LitAt(verdict, 1, "**ROLE-SPECIFIC FIT**")
            ELSE LitAt(verdict, 1, score_tier(final_score))

\* a candidate who fits the role gets the role-specific-fit verdict at 49.99
\* and at 50
C23_RoleSpecificFit == returned_value # <<>> /\ role_fit(called_with.contextual_match) /\ called_with.final_score \in {4999 * 100, 50 * U} /\ LitAt(returned_value[1][1], 1, "**ROLE-SPECIFIC FIT**")

-----------------------------------------------------------------------------
(* calculate_skills_score on growing resume skills                         *)

\* Skills of the embedded taxonomy's categories culinary_skills and
\* soft_skills, in the order of the taxonomy; 'general' requires soft_skills.
culinary_skills_listed ==
    [category |-> "culinary_skills", subcategories |-> <<
        [subcategory |-> "cooking_techniques", skills |-> <<"grilling", "roasting", "braising", "poaching", "frying", "steaming", "baking", "broiling", "smoking", "sous vide", "confit">>],
        [subcategory |-> "cuisine_types", skills |-> <<"italian", "french", "asian", "mexican", "mediterranean", "american", "indian", "thai", "chinese", "japanese", "korean", "middle eastern", "fusion">>],
        [subcategory |-> "food_preparation", skills |-> <<"knife skills", "food prep", "mise en place", "plating", "garnishing", "portioning", "butchery", "filleting", "vegetable carving">>],
        [subcategory |-> "kitchen_management", skills |-> <<"inventory", "cost control", "menu planning", "kitchen safety", "sanitation", "haccp", "food ordering", "staff scheduling", "quality control">>]>>]

soft_skills_listed ==
    [category |-> "soft_skills", subcategories |-> <<
        [subcategory |-> "leadership", skills |-> <<"leadership", "team management", "mentoring", "coaching", "delegation", "vision setting">>]>>]

\* a resume has found at most this many culinary skills before one is added
MaxFound == 31

\* the number of skills of the subcategories before the j-th
skills_before(cat, j) == Sum([b \in 1..(j - 1) |-> Len(cat.subcategories[b].skills)])

\* found_skills of extract_skills_with_context for a resume that names the
\* first n skills of the category: <<>> for none, else the category with
\* the subcategories that have a skill
first_found(cat, n) ==
    LET subs == [j \in DOMAIN cat.subcategories |->
                    [subcategory |-> cat.subcategories[j].subcategory,
                     skills |-> SubSeq(cat.subcategories[j].skills, 1,
                                       Min({Len(cat.subcategories[j].skills), n - skills_before(cat, j)}))]]
    IN  IF n = 0 THEN <<>>
        ELSE <<[category |-> cat.category,
                subcategories |-> SelectSeqOf(subs, {j \in DOMAIN subs : subs[j].skills # <<>>})]>>

\* the skills of a resume with n culinary and m soft skills
found_skills(n, m) == first_found(culinary_skills_listed, n) \o first_found(soft_skills_listed, m)

InitSkillsScore ==
    /\ \E n \in 0..MaxFound, m \in 0..2, culinary_added \in BOOLEAN :
          called_with = [skills |-> found_skills(n, m),
                         more_skills |-> IF culinary_added THEN found_skills(n + 1, m) ELSE found_skills(n, m + 1)]
    /\ returned_value = <<>>
    /\ OnlyCall
    /\ NoApp

\* calculate_skills_score(resume_analysis) of calculate_resume_score on
\* the one and on the other skills
SkillsScore ==
    /\ returned_value = <<>>
    /\ returned_value' = <<calculate_skills_score([skills |-> called_with.skills], "general"),
                           calculate_skills_score([skills |-> called_with.more_skills], "general")>>
    /\ UNCHANGED <<called_with, analysis_vars, match_vars, batch_vars, app_vars>>

SpecSkillsScore == InitSkillsScore /\ [][SkillsScore]_vars

\* C25: the skills sub-score of a resume with one more skill found is not
\* lower than the sub-score without it.
C25_SkillsScoreMonotone == returned_value # <<>> => returned_value[1] <= returned_value[2]

-----------------------------------------------------------------------------
(* The analysis history of the single-file page: process_single_file hands *)
(* every analysed upload to add_analysis_to_history                        *)

\* the largest number of analysed uploads of one browser session
MaxAdded == 12

\* the uploads of the single-file page: the file name, whether extract_text
\* finds text in the file, and the overall score and the number of skills
\* calculate_resume_score finds
history_uploads ==
    <<[name |-> "a.pdf", text |-> TRUE, overall_score |-> 7250, total_skills_count |-> 5],
      [name |-> "b.docx", text |-> TRUE, overall_score |-> 2895, total_skills_count |-> 30],
      [name |-> "scan.pdf", text |-> FALSE, overall_score |-> 0, total_skills_count |-> 0]>>

\* a new browser session on the single-file page: init_session_state has set
\* analysis_history to []
InitHistory ==
    /\ analysis_history = <<>>
    /\ history_added = <<>>
    /\ now = 0
    /\ NoAuth
    /\ NoCall
    /\ OnlyCall

\* process_single_file on an upload: without text it shows an error and
\* returns; otherwise the analysis, with analyzed_by set, is added to the
\* history at the clock's reading, and the clock moves on
ProcessSingleFile(upload) ==
    /\ Len(history_added) < MaxAdded
    /\ IF ~upload.text
       THEN UNCHANGED <<history_vars, now>>
       ELSE LET user_data == dict_get(session_state, "user_data", empty_dict)
                analysis_result == [overall_score |-> upload.overall_score,
                                    total_skills_count |-> upload.total_skills_count,
                                    analyzed_by |-> dict_get(user_data, "full_name", "Unknown")]
            IN  /\ analysis_history' = add_analysis_to_history(analysis_history, analysis_result,
                                                               upload.name, now)
                /\ history_added' = Append(history_added, [filename |-> upload.name,
                                                           timestamp |-> isoformat(now),
                                                           analysis |-> analysis_result])
                /\ now' = now + 1
    /\ UNCHANGED <<users_file, sessions_file, session_state, page_shown, last_run, last_call,
                   requests, ended, analysis_vars, match_vars, batch_vars, call_vars>>

NextHistory == \E i \in DOMAIN history_uploads : ProcessSingleFile(history_uploads[i])

SpecHistory == InitHistory /\ [][NextHistory]_vars

\* C26: after any sequence of add_analysis_to_history calls analysis_history
\* holds at most 10 items, and they are the most recently added items, all
\* of them while there are at most 10, in the order in which they were added
C26_LastTenInOrder ==
    LET kept == Min({history_limit, Len(history_added)})
    IN  /\ Len(analysis_history) <= history_limit
        /\ Len(analysis_history) = kept
        /\ \A i \in 1..kept :
              analysis_history[i] = history_added[Len(history_added) - kept + i]

\* more than ten analyses were added and the oldest is no longer in the history
C26_OldestDropped ==
    /\ Len(history_added) > history_limit
    /\ Len(analysis_history) = history_limit
    /\ analysis_history[1] # history_added[1]
    /\ analysis_history[history_limit] = history_added[Len(history_added)]

-----------------------------------------------------------------------------
(* The session store under calls that run one after the other:             *)
(* create_session, validate_session and logout_user of AuthManager, each   *)
(* loading data/sessions.json, changing the dict and saving it             *)

\* the last step of the clock
MaxClock == 9

\* the largest number of sessions created
MaxSessions == 2

\* the accounts that log in, with their passwords
session_logins == <<[username |-> "admin", password |-> "fcg@2024"],
                    [username |-> "hr_manager", password |-> "hr@fcg123"]>>

\* a session id that create_session never returned
unknown_session_id == sha256("unknown")

\* the user data handle_login hands to create_session: what authenticate_user
\* returns for the account
login_user_data(login, at) ==
    authenticate_user(load_users(users_file), login.username, login.password, at).returned

\* the session ids the callers hold: those of the stored sessions, those of
\* the sessions that were removed, and one that was never created
known_session_ids == DOMAIN load_sessions(sessions_file) \cup ended \cup {unknown_session_id}

\* the data directory after ensure_data_files, no session yet
InitSessions ==
    /\ users_file = file_written(default_users(0))
    /\ sessions_file = file_written(empty_dict)
    /\ now = 0
    /\ ended = {}
    /\ last_call = NoAuthCall
    /\ session_state = empty_dict
    /\ page_shown = "nothing"
    /\ last_run = NoRun
    /\ requests = <<>>
    /\ NoHistory
    /\ NoCall
    /\ OnlyCall

\* what a completed call leaves in last_call
completed_call(method, session_id, sessions, returned) ==
    [method |-> method, session_id |-> session_id, at |-> now, before |-> sessions,
     ended_before |-> ended, returned |-> returned]

\* create_session(user_data) for an account that has logged in; the call
\* takes time, the next reading of the clock is a later one
CreateSession(login) ==
    /\ now < MaxClock
    /\ Cardinality(DOMAIN load_sessions(sessions_file) \cup ended) < MaxSessions
    /\ LET sessions == load_sessions(sessions_file)
           call == create_session(sessions, login_user_data(login, now), now)
       IN  /\ sessions_file' = file_after(sessions_file, call, call.sessions)
           /\ last_call' = completed_call("create_session", call.returned, sessions,
                                          call.returned)
    /\ now' = now + 1
    /\ UNCHANGED <<ended, users_file, session_state, page_shown, last_run, requests,
                   history_vars, analysis_vars, match_vars, batch_vars, call_vars>>

\* validate_session(session_id)
ValidateSession(session_id) ==
    /\ LET sessions == load_sessions(sessions_file)
           call == validate_session(sessions, session_id, now)
           found_expired == /\ session_id \in DOMAIN sessions
                            /\ ~(now < fromisoformat(sessions[session_id].expires_at))
       IN  /\ sessions_file' = file_after(sessions_file, call, call.sessions)
           /\ last_call' = completed_call("validate_session", session_id, sessions,
                                          call.returned)
           /\ ended' = IF found_expired THEN ended \cup {session_id} ELSE ended
    /\ UNCHANGED <<now, users_file, session_state, page_shown, last_run, requests,
                   history_vars, analysis_vars, match_vars, batch_vars, call_vars>>

\* logout_user(session_id)
LogoutUser(session_id) ==
    /\ LET sessions == load_sessions(sessions_file)
           call == logout_user(sessions, session_id)
       IN  /\ sessions_file' = file_after(sessions_file, call, call.sessions)
           /\ last_call' = completed_call("logout_user", session_id, sessions, call.returned)
           /\ ended' = IF session_id \in DOMAIN sessions
                       THEN ended \cup {session_id}
                       ELSE ended
    /\ UNCHANGED <<now, users_file, session_state, page_shown, last_run, requests,
                   history_vars, analysis_vars, match_vars, batch_vars, call_vars>>

\* time passes between two calls
Tick ==
    /\ now < MaxClock
    /\ now' = now + 1
    /\ UNCHANGED <<users_file, sessions_file, session_state, page_shown, last_run, last_call,
                   requests, ended, history_vars, analysis_vars, match_vars, batch_vars,
                   call_vars>>

NextSessions ==
    \/ \E i \in DOMAIN session_logins : CreateSession(session_logins[i])
    \/ \E session_id \in known_session_ids : ValidateSession(session_id)
    \/ \E session_id \in known_session_ids : LogoutUser(session_id)
    \/ Tick

SpecSessions == InitSessions /\ [][NextSessions]_vars

\* C27: in any sequence of create_session, validate_session and logout_user
\* calls, validate_session(s) returns the user data exactly when s is stored
\* and the clock is before its expires_at, which is its creation time plus 8
\* hours, and None otherwise; a session that was logged out or found expired
\* is no longer stored, and every later validate_session of it returns None
C27_ValidateSession ==
    LET stored == load_sessions(sessions_file)
    IN  /\ ended \cap DOMAIN stored = {}
        /\ \A s \in DOMAIN stored :
              fromisoformat(stored[s].expires_at)
                 = fromisoformat(stored[s].created_at) + session_hours
        /\ (last_call.method = "validate_session") =>
              LET s == last_call.session_id
                  before == last_call.before
                  live == /\ s \in DOMAIN before
                          /\ last_call.at < fromisoformat(before[s].expires_at)
              IN  /\ live => (last_call.returned = before[s].user_data)
                  /\ (~live) => (last_call.returned = None)
                  /\ (s \in last_call.ended_before) => (last_call.returned = None)

\* validate_session has just found a session expired at the very step of its
\* expires_at and removed it, while another session is still stored
C27_FoundExpired ==
    /\ last_call.method = "validate_session"
    /\ last_call.session_id \in DOMAIN last_call.before
    /\ last_call.at = fromisoformat(last_call.before[last_call.session_id].expires_at)
    /\ last_call.returned = None
    /\ last_call.session_id \in ended
    /\ last_call.session_id \notin DOMAIN load_sessions(sessions_file)
    /\ DOMAIN load_sessions(sessions_file) # {}

-----------------------------------------------------------------------------
(* One browser session of the application: each interaction is a run of    *)
(* the script (app.py), which shows the login page or the application.     *)
(* Of st.session_state the keys of the login are kept.                     *)

\* what is typed into the login form: the two accounts, a wrong password
\* and a name without an account
login_attempts == <<[username |-> "admin", password |-> "fcg@2024"],
                    [username |-> "hr_manager", password |-> "hr@fcg123"],
                    [username |-> "admin", password |-> "admin"],
                    [username |-> "guest", password |-> "fcg@2024"]>>

\* the server has not run yet: no data files, an empty session state
InitApp ==
    /\ users_file = file_missing
    /\ sessions_file = file_missing
    /\ now = 0
    /\ session_state = empty_dict
    /\ page_shown = "nothing"
    /\ last_run = NoRun
    /\ last_call = NoAuthCall
    /\ requests = <<>>
    /\ ended = {}
    /\ NoHistory
    /\ NoCall
    /\ OnlyCall

\* the page is opened or a widget of it is used: one run of the script
Rerun ==
    /\ \E run \in {main(session_state, sessions_file, now)} :
          /\ session_state' = run.session_state
          /\ sessions_file' = run.sessions_file
          /\ page_shown' = run.page_shown
          /\ last_run' = run.last_run
    /\ users_file' = ensure_users_file(users_file, now)
    /\ UNCHANGED <<now, last_call, requests, ended, history_vars, analysis_vars, match_vars,
                   batch_vars, call_vars>>

\* the login form is submitted: the run shows the login page again and
\* handle_login authenticates; on success it creates a session, stores it in
\* the session state and reruns the script, a step of the clock later
SubmitLogin(attempt) ==
    /\ page_shown = "login"
    /\ now < MaxClock
    /\ LET first == main(session_state, sessions_file, now)
           users == load_users(ensure_users_file(users_file, now))
           login == authenticate_user(users, attempt.username, attempt.password, now)
       IN  IF first.page_shown = "login" /\ login.returned # None
           THEN LET created == create_session(load_sessions(first.sessions_file),
                                              login.returned, now)
                    state == dict_set(dict_set(dict_set(first.session_state,
                                 "authenticated", TRUE),
                                 "session_id", created.returned),
                                 "user_data", login.returned)
                    rerun == main(state, file_written(created.sessions), now + 1)
                IN  /\ users_file' = file_written(login.users)
                    /\ session_state' = rerun.session_state
                    /\ sessions_file' = rerun.sessions_file
                    /\ page_shown' = rerun.page_shown
                    /\ last_run' = rerun.last_run
                    /\ now' = now + 1
           ELSE /\ users_file' = ensure_users_file(users_file, now)
                /\ session_state' = first.session_state
                /\ sessions_file' = first.sessions_file
                /\ page_shown' = first.page_shown
                /\ last_run' = first.last_run
                /\ now' = now
    /\ UNCHANGED <<last_call, requests, ended, history_vars, analysis_vars, match_vars,
                   batch_vars, call_vars>>

\* the Logout button of the application is pressed: when the run still shows
\* the application, logout removes the session, clears the session state and
\* reruns the script
ClickLogout ==
    /\ page_shown = "main"
    /\ LET first == main(session_state, sessions_file, now)
       IN  IF first.page_shown = "main"
           THEN LET sessions == load_sessions(first.sessions_file)
                    call == IF "session_id" \in DOMAIN first.session_state
                            THEN logout_user(sessions, first.session_state["session_id"])
                            ELSE [saved |-> FALSE, sessions |-> sessions, returned |-> None]
                    rerun == main(empty_dict,
                                  file_after(first.sessions_file, call, call.sessions), now)
                IN  /\ session_state' = rerun.session_state
                    /\ sessions_file' = rerun.sessions_file
                    /\ page_shown' = rerun.page_shown
                    /\ last_run' = rerun.last_run
           ELSE /\ session_state' = first.session_state
                /\ sessions_file' = first.sessions_file
                /\ page_shown' = first.page_shown
                /\ last_run' = first.last_run
    /\ users_file' = ensure_users_file(users_file, now)
    /\ UNCHANGED <<now, last_call, requests, ended, history_vars, analysis_vars, match_vars,
                   batch_vars, call_vars>>

\* time passes between two runs
Wait ==
    /\ now < MaxClock
    /\ now' = now + 1
    /\ UNCHANGED <<users_file, sessions_file, session_state, page_shown, last_run, last_call,
                   requests, ended, history_vars, analysis_vars, match_vars, batch_vars,
                   call_vars>>

\* data/sessions.json is deleted between two runs (the data directory of the
\* server is cleaned); the next run creates an empty one
RemoveSessionsFile ==
    /\ sessions_file.state = "written"
    /\ sessions_file' = file_missing
    /\ UNCHANGED <<users_file, now, session_state, page_shown, last_run, last_call,
                   requests, ended, history_vars, analysis_vars, match_vars, batch_vars,
                   call_vars>>

NextApp ==
    \/ Rerun
    \/ \E i \in DOMAIN login_attempts : SubmitLogin(login_attempts[i])
    \/ ClickLogout
    \/ Wait
    \/ RemoveSessionsFile

SpecApp == InitApp /\ [][NextApp]_vars

\* the session id the run started with names a stored session that had not
\* expired at the time of the run
session_was_valid ==
    /\ "session_id" \in DOMAIN last_run.state
    /\ last_run.state["session_id"] \in DOMAIN last_run.sessions
    /\ last_run.at < fromisoformat(last_run.sessions[last_run.state["session_id"]].expires_at)

\* C28: a run shows the main application only if in that run the session
\* state has authenticated == True and a session id, and validate_session of
\* that id returned user data; when the session has expired or was removed,
\* check_authentication sets authenticated to False and the run shows the
\* login page
C28_MainOnlyWhenValidated ==
    /\ (page_shown = "main") =>
          /\ last_run.checked
          /\ dict_get(last_run.state, "authenticated", FALSE) = TRUE
          /\ session_was_valid
          /\ last_run.validated # <<>>
          /\ last_run.validated[1] # None
          /\ last_run.validated[1]
                = last_run.sessions[last_run.state["session_id"]].user_data
    /\ (/\ last_run.checked
        /\ dict_get(last_run.state, "authenticated", FALSE)
        /\ "session_id" \in DOMAIN last_run.state
        /\ ~session_was_valid) =>
          /\ session_state["authenticated"] = FALSE
          /\ page_shown = "login"

\* a run of a logged-in browser found the session expired, reset
\* authenticated and showed the login page
C28_ExpiredShowsLogin ==
    /\ last_run.checked
    /\ dict_get(last_run.state, "authenticated", FALSE)
    /\ "session_id" \in DOMAIN last_run.state
    /\ last_run.state["session_id"] \in DOMAIN last_run.sessions
    /\ ~session_was_valid
    /\ session_state["authenticated"] = FALSE
    /\ page_shown = "login"

\* a run of a logged-in browser found the session removed from the store
C28_RemovedShowsLogin ==
    /\ last_run.checked
    /\ dict_get(last_run.state, "authenticated", FALSE)
    /\ "session_id" \in DOMAIN last_run.state
    /\ last_run.state["session_id"] \notin DOMAIN last_run.sessions
    /\ page_shown = "login"

-----------------------------------------------------------------------------
(* The session store under calls of several browser sessions at once.      *)
(* Streamlit runs the script of each browser session in a thread of its    *)
(* own; every run builds its AuthManager on the same data/sessions.json,   *)
(* and no call locks the file.  A call is three steps: the load, the       *)
(* open(file, 'w') of the save, and its json.dump.                         *)

\* the number of calls that run at once
MaxRequests == 2

\* the sessions stored before the calls: one of admin created at step 0 and
\* one of hr_manager created three steps before the first has expired
stored_sessions ==
    LET users == default_users(0)
        admin == authenticate_user(users, "admin", "fcg@2024", 0).returned
        hr_manager == authenticate_user(users, "hr_manager", "hr@fcg123",
                                        session_hours - 3).returned
        first == create_session(empty_dict, admin, 0).sessions
    IN  create_session(first, hr_manager, session_hours - 3).sessions

\* the calls the browser sessions make: a login creates a session, a logout
\* or a run of the script removes or validates a stored one
session_requests ==
    {new_request("create_session", authenticate_user(default_users(0),
                     session_logins[i].username, session_logins[i].password,
                     session_hours + 1).returned) : i \in DOMAIN session_logins}
    \cup {new_request("logout_user", s) : s \in DOMAIN stored_sessions}
    \cup {new_request("validate_session", s) : s \in DOMAIN stored_sessions}

\* the calls are about to start, a step after the first session has expired
InitConcurrent ==
    /\ users_file = file_written(default_users(0))
    /\ sessions_file = file_written(stored_sessions)
    /\ now = session_hours + 1
    /\ requests \in [1..MaxRequests -> session_requests]
    /\ session_state = empty_dict
    /\ page_shown = "nothing"
    /\ last_run = NoRun
    /\ last_call = NoAuthCall
    /\ ended = {}
    /\ NoHistory
    /\ NoCall
    /\ OnlyCall

\* the method of a call on the sessions it has loaded; create_session reads
\* the clock
session_call(request, sessions, at) ==
    CASE request.method = "create_session" -> create_session(sessions, request.argument, at)
      [] request.method = "validate_session" -> validate_session(sessions, request.argument, at)
      [] request.method = "logout_user" -> logout_user(sessions, request.argument)

\* a call loads the sessions and changes its copy; two readings of the clock
\* by create_session are never the same
LoadSessions(r) ==
    /\ requests[r].pc = "load"
    /\ LET call == session_call(requests[r], load_sessions(sessions_file), now)
       IN  requests' = [requests EXCEPT ![r] = loaded_request(@, call, call.sessions)]
    /\ now' = IF requests[r].method = "create_session" THEN now + 1 ELSE now
    /\ UNCHANGED <<users_file, sessions_file, session_state, page_shown, last_run, last_call,
                   ended, history_vars, analysis_vars, match_vars, batch_vars, call_vars>>

\* save_sessions opens the file
OpenSessions(r) ==
    /\ requests[r].pc = "open"
    /\ sessions_file' = opened_file(sessions_file)
    /\ requests' = [requests EXCEPT ![r].pc = "dump"]
    /\ UNCHANGED <<users_file, now, session_state, page_shown, last_run, last_call,
                   ended, history_vars, analysis_vars, match_vars, batch_vars, call_vars>>

\* save_sessions writes the file, and the call returns
DumpSessions(r) ==
    /\ requests[r].pc = "dump"
    /\ sessions_file' \in dumped_files(sessions_file, requests[r].dict)
    /\ requests' = [requests EXCEPT ![r].pc = "done"]
    /\ UNCHANGED <<users_file, now, session_state, page_shown, last_run, last_call,
                   ended, history_vars, analysis_vars, match_vars, batch_vars, call_vars>>

NextConcurrent ==
    \/ \E r \in DOMAIN requests : LoadSessions(r)
    \/ \E r \in DOMAIN requests : OpenSessions(r)
    \/ \E r \in DOMAIN requests : DumpSessions(r)

SpecConcurrent == InitConcurrent /\ [][NextConcurrent]_vars

\* every call has returned
all_returned == \A r \in DOMAIN requests : requests[r].pc = "done"

\* C30: when the calls of two users interleave their load, change and save
\* of the sessions file, no update is lost: once the calls have returned,
\* every session a create_session created is in the store and every session a
\* logout_user removed is not
C30_NoLostUpdate ==
    all_returned =>
       \A r \in DOMAIN requests :
          /\ (requests[r].method = "create_session") =>
                (requests[r].returned \in DOMAIN load_sessions(sessions_file))
          /\ (requests[r].method = "logout_user") =>
                (requests[r].argument \notin DOMAIN load_sessions(sessions_file))

-----------------------------------------------------------------------------
(* The user store while the administrator adds a user and another browser  *)
(* session logs in: add_user and authenticate_user on the same             *)
(* data/users.json, each a load, the open of the save and its json.dump    *)

\* the users stored before the two calls
stored_users == default_users(0)

\* what the administrator enters in the Add New User form: a user name that
\* has an account or one that has none, and one of the roles of the form
add_user_requests ==
    {new_request("add_user", [username |-> username, password |-> "welcome1", role |-> role,
                              full_name |-> "New User", email |-> "new@fourcornersgroup.com"]) :
        username \in {"admin", "analyst1"}, role \in {"hr_manager", "analyst", "admin"}}

\* the logins of the other browser session
authenticate_user_requests ==
    {new_request("authenticate_user", login_attempts[i]) : i \in DOMAIN login_attempts}

\* the two calls are about to start, a step after the accounts were created
InitUsers ==
    /\ users_file = file_written(stored_users)
    /\ sessions_file = file_written(empty_dict)
    /\ now = 1
    /\ \E added \in add_user_requests, login \in authenticate_user_requests :
          requests = <<added, login>>
    /\ session_state = empty_dict
    /\ page_shown = "nothing"
    /\ last_run = NoRun
    /\ last_call = NoAuthCall
    /\ ended = {}
    /\ NoHistory
    /\ NoCall
    /\ OnlyCall

\* the method of a call on the users it has loaded
user_call(request, users, at) ==
    CASE request.method = "add_user" ->
            add_user(users, request.argument.username, request.argument.password,
                     request.argument.role, request.argument.full_name,
                     request.argument.email, at)
      [] request.method = "authenticate_user" ->
            authenticate_user(users, request.argument.username, request.argument.password, at)

\* a call loads the users and changes its copy
LoadUsers(r) ==
    /\ requests[r].pc = "load"
    /\ LET call == user_call(requests[r], load_users(users_file), now)
       IN  requests' = [requests EXCEPT ![r] = loaded_request(@, call, call.users)]
    /\ UNCHANGED <<users_file, sessions_file, now, session_state, page_shown, last_run,
                   last_call, ended, history_vars, analysis_vars, match_vars, batch_vars,
                   call_vars>>

\* save_users opens the file
OpenUsers(r) ==
    /\ requests[r].pc = "open"
    /\ users_file' = opened_file(users_file)
    /\ requests' = [requests EXCEPT ![r].pc = "dump"]
    /\ UNCHANGED <<sessions_file, now, session_state, page_shown, last_run, last_call,
                   ended, history_vars, analysis_vars, match_vars, batch_vars, call_vars>>

\* save_users writes the file, and the call returns
DumpUsers(r) ==
    /\ requests[r].pc = "dump"
    /\ users_file' \in dumped_files(users_file, requests[r].dict)
    /\ requests' = [requests EXCEPT ![r].pc = "done"]
    /\ UNCHANGED <<sessions_file, now, session_state, page_shown, last_run, last_call,
                   ended, history_vars, analysis_vars, match_vars, batch_vars, call_vars>>

NextUsers ==
    \/ \E r \in DOMAIN requests : LoadUsers(r)
    \/ \E r \in DOMAIN requests : OpenUsers(r)
    \/ \E r \in DOMAIN requests : DumpUsers(r)

SpecUsers == InitUsers /\ [][NextUsers]_vars

\* the last_login the other calls leave to a user: the reading of the login
\* that authenticated the user, else the one stored before
last_login_left(username) ==
    IF \E r \in DOMAIN requests :
          /\ requests[r].method = "authenticate_user"
          /\ requests[r].returned # None
          /\ requests[r].argument.username = username
    THEN isoformat(now)
    ELSE stored_users[username].last_login

\* C29: add_user never overwrites an existing account.  When the user name
\* has an account it returns False and the stored users stay as they are;
\* when it has none it returns True and the store gains exactly that user;
\* in both cases every other user keeps password hash, role, name, email and
\* last_login
C29_AddUserNeverOverwrites ==
    all_returned =>
       \A r \in DOMAIN requests :
          (requests[r].method = "add_user") =>
             LET new == requests[r].argument
                 users == load_users(users_file)
             IN  /\ requests[r].returned = (new.username \notin DOMAIN stored_users)
                 /\ DOMAIN users = DOMAIN stored_users \cup {new.username}
                 /\ \A username \in DOMAIN stored_users :
                       users[username] = [stored_users[username] EXCEPT
                                             !.last_login = last_login_left(username)]
                 /\ (new.username \notin DOMAIN stored_users) =>
                       /\ users[new.username].password = hash_password(new.password)
                       /\ users[new.username].role = new.role
                       /\ users[new.username].last_login = None

====
